---- MODULE Spec2Model ----
(***************************************************************************)
(* Model of the Telegram channel music player.                             *)
(*                                                                         *)
(* The repository ships the same player twice: src/server.js, a long-lived *)
(* Express process that keeps the playlist in module variables and in      *)
(* ./music_cache.json, and src/functions/api.js, a serverless function     *)
(* that keeps it in module variables and in the PersistentStorage          *)
(* singleton of functions/storage.js (src/unnamed/part_000).  The variable *)
(* deployment says which of the two programs runs; both talk to the same   *)
(* Telegram channel, modelled as a map from message ids to payloads.       *)
(***************************************************************************)
EXTENDS Integers, Sequences, FiniteSets, TLC

(***************************************************************************)
(* Bounds of the model.                                                    *)
(***************************************************************************)
\* Highest message id the channel hands out: room for two posts behind an
\* earlier message, the probe of a refresh and the copies of the two posts.
MaxMsgId == 6
\* Distinct audio files users upload.
NumFiles == 3
\* Highest playback position (seconds) a seek request carries.
MaxPos == 1
\* Scan window of scanForNewMessages; the code's maxScanCount is 50
\* (server.js:1420), scaled down to the model's message-id range.
MaxScanCount == 3
\* Channel posts whose webhook update is still under way.
MaxPending == 1
\* Posts the channel's users make while the sync pass is under study.
MaxPosts == 2
\* Provider calls that fail for a reason other than the channel's contents.
MaxFaults == 1

Files == 1..NumFiles
MsgIds == 1..MaxMsgId

(***************************************************************************)
(* Tracks.  fileId = 0 and messageId = 0 stand for an absent field         *)
(* (undefined is falsy in the code's `!track.messageId').                  *)
(***************************************************************************)
FileTitles == <<"Song A", "Song B", "Song C", "Song D", "Song E">>

\* audioFile.title || audioFile.file_name || ... : the title travels with the file.
TitleOf(f) == FileTitles[f]

Track(f, m) == [title |-> TitleOf(f), fileId |-> f, messageId |-> m]

DemoTitles == {"Demo Song 1", "Demo Song 2", "Demo Song 3"}

DemoPlaylist ==
    << [title |-> "Demo Song 1", fileId |-> 0, messageId |-> 0],
       [title |-> "Demo Song 2", fileId |-> 0, messageId |-> 0],
       [title |-> "Demo Song 3", fileId |-> 0, messageId |-> 0] >>

\* musicFiles[0].title?.includes('Demo Song')
IsDemoTitle(t) == t \in DemoTitles

(***************************************************************************)
(* Channel payloads.                                                       *)
(***************************************************************************)
NoMsg == [kind |-> "none", file |-> 0, copy |-> FALSE]
TextMsg == [kind |-> "text", file |-> 0, copy |-> FALSE]
AudioMsg(f) == [kind |-> "audio", file |-> f, copy |-> FALSE]

\* The message forwardMessage creates from message p. That it is a copy is
\* kept for the properties only: the bot gets no such mark from the provider.
CopyOf(p) == [p EXCEPT !.copy = TRUE]

\* msg.audio || msg.voice || msg.document, then the isAudioFile test.
IsAudioFile(p) == p.kind = "audio"

(***************************************************************************)
(* Sequence helpers.                                                       *)
(***************************************************************************)
RECURSIVE SelectSeqIdx(_, _, _)
\* The subsequence of s at the positions i..Len(s) whose index is in keep.
SelectSeqIdx(s, keep, i) ==
    IF i > Len(s) THEN << >>
    ELSE (IF i \in keep THEN << s[i] >> ELSE << >>) \o SelectSeqIdx(s, keep, i + 1)

Titles(s) == [i \in 1..Len(s) |-> s[i].title]

MessageIdsOf(s) == {s[i].messageId : i \in 1..Len(s)} \ {0}

VARIABLES
    deployment,       \* "server" (server.js) or "serverless" (functions/api.js)
    musicFiles,       \* let musicFiles
    currentIndex,     \* let currentIndex
    currentPosition,  \* let currentPosition
    persisted,        \* music_cache.json (server) / the blob store record (serverless)
    memoryCache,      \* PersistentStorage.memoryCache (serverless)
    aliased,          \* memoryCache.musicFiles is the very array musicFiles names
    channel,          \* the channel: message id -> payload
    nextMsgId,        \* the id the provider gives the next message
    updates,          \* channel_post updates on their way to the handler
    filesSeen,        \* how many distinct files users have uploaded so far
    posts,            \* how many posts users have made so far
    faults,           \* provider calls that have failed so far
    sync,             \* the sync pass in flight (server): its locals and position
    resp,             \* the response of the step just taken, if it answered a caller
    pending,          \* the playback request that is waiting at an await, if any
    hist              \* history of the passes (observer, not program state)

vars == << deployment, musicFiles, currentIndex, currentPosition, persisted,
           memoryCache, aliased, channel, nextMsgId, updates, filesSeen, posts, faults,
           sync, resp, pending, hist >>

None == [present |-> FALSE]
Record(files, idx) == [present |-> TRUE, musicFiles |-> files, currentIndex |-> idx]

NoResp == [op |-> "none"]

\* No playback request is waiting at an await.
NoRequest == [op |-> "none"]

IdleSync ==
    [pc |-> "idle", existingMusic |-> << >>, i |-> 0, validTracks |-> << >>,
     removedTracks |-> << >>, validationErrors |-> 0, probes |-> << >>,
     latestMessageId |-> 0, msgId |-> 0, scanCount |-> 0, newTracks |-> << >>,
     fwdId |-> 0, fwdFile |-> 0]

(***************************************************************************)
(* History of the sync passes (an observer, not program state).  streak    *)
(* counts the passes completed one after the other with nothing else       *)
(* happening since the first of them started (no request, no channel       *)
(* event); cleanStreak counts those in which, in addition, every provider  *)
(* call answered according to the channel's state.  Right after a pass,    *)
(* and until the next event, done holds and pass keeps what the pass       *)
(* worked on: the playlist it started from, the answer to each liveness    *)
(* probe, the tracks it retained and the tracks it found, the channel as   *)
(* it was when the pass started, the head id the scan probe got (0 when it *)
(* got none), the ids the scan forwarded, and whether a delete call of the *)
(* pass failed.                                                            *)
(***************************************************************************)
NoPass == [existingMusic |-> << >>, probes |-> << >>, validTracks |-> << >>,
           newTracks |-> << >>, channel |-> << >>, head |-> 0, scanned |-> {},
           stuck |-> FALSE]

Disturbed ==
    [streak |-> 0, cleanStreak |-> 0, disturbed |-> TRUE, faulty |-> FALSE,
     done |-> FALSE, pass |-> NoPass]

Min(a, b) == IF a < b THEN a ELSE b

PassDone(h, sy, newTracks, faultNow) ==
    [streak |-> IF h.disturbed THEN 0 ELSE Min(h.streak + 1, 2),
     cleanStreak |-> IF h.disturbed \/ h.faulty \/ faultNow THEN 0
                     ELSE Min(h.cleanStreak + 1, 2),
     disturbed |-> FALSE, faulty |-> FALSE, done |-> TRUE,
     pass |-> [h.pass EXCEPT !.existingMusic = sy.existingMusic,
                             !.probes = sy.probes,
                             !.validTracks = sy.validTracks,
                             !.newTracks = newTracks,
                             !.head = sy.latestMessageId]]

Fault(h, isFault) ==
    IF isFault /\ ~h.disturbed THEN [h EXCEPT !.faulty = TRUE] ELSE h

\* The scan has tried to forward message m.
Scanned(h, m) == [h EXCEPT !.pass.scanned = @ \cup {m}]

\* A delete call of the pass has failed (isStuck): its message stays.
Stuck(h, isStuck) == IF isStuck THEN [h EXCEPT !.pass.stuck = TRUE] ELSE h

\* A provider call fails (isFault) only while the model's budget of failures
\* lasts.
Failure(isFault) ==
    /\ isFault => faults < MaxFaults
    /\ faults' = IF isFault THEN faults + 1 ELSE faults

Init ==
    /\ deployment \in {"server", "serverless"}
    /\ musicFiles = IF deployment = "server" THEN DemoPlaylist ELSE << >>
    /\ currentIndex = 0
    /\ currentPosition = 0
    /\ persisted = None
    /\ memoryCache = None
    /\ aliased = FALSE
    /\ channel = [m \in MsgIds |-> NoMsg]
    /\ nextMsgId = 1
    /\ updates = {}
    /\ filesSeen = 0
    /\ posts = 0
    /\ faults = 0
    /\ sync = IdleSync
    /\ resp = NoResp
    /\ pending = NoRequest
    /\ hist = Disturbed

(***************************************************************************)
(* The channel's users.                                                    *)
(***************************************************************************)
\* A user uploads audio file f to the channel; the provider may or may not
\* get a channel_post update under way to the bot (the webhook can be down).
\* Files are interchangeable, so a file not seen before is always the next
\* one in the numbering.
UserPost(f, notify) ==
    /\ nextMsgId <= MaxMsgId
    /\ f <= filesSeen + 1
    /\ filesSeen' = IF f > filesSeen THEN f ELSE filesSeen
    /\ posts' = posts + 1
    /\ channel' = [channel EXCEPT ![nextMsgId] = AudioMsg(f)]
    /\ nextMsgId' = nextMsgId + 1
    /\ IF notify /\ deployment = "server" /\ Cardinality(updates) < MaxPending
       THEN updates' = updates \cup {[messageId |-> nextMsgId, file |-> f]}
       ELSE updates' = updates
    /\ resp' = NoResp
    /\ UNCHANGED faults
    /\ hist' = Disturbed
    /\ UNCHANGED << pending, deployment, musicFiles, currentIndex, currentPosition,
                    persisted, memoryCache, aliased, sync >>

\* A faulty variant of Deleted: the message stays.
NotDeleted(chan, m) == chan

\* The channel once message m is deleted (bot.deleteMessage, or by hand).
Deleted(chan, m) == [chan EXCEPT ![m] = NoMsg]

\* A channel administrator deletes a post.
DeletePost(m) ==
    /\ channel[m].kind = "audio"
    /\ channel' = Deleted(channel, m)
    /\ resp' = NoResp
    /\ hist' = Disturbed
    /\ UNCHANGED << pending, deployment, musicFiles, currentIndex, currentPosition,
                    persisted, memoryCache, aliased, nextMsgId, updates,
                    filesSeen, posts, faults, sync >>

(***************************************************************************)
(* server.js: the store.                                                   *)
(***************************************************************************)
\* savePersistedMusic(): writeFileSync inside try/catch; a failed write is
\* logged and the file keeps its content.
SavePersistedMusic(files, idx, writeOk) ==
    IF writeOk THEN Record(files, idx) ELSE persisted

\* loadPersistedMusic(): TRUE when the file holds a non-empty track list.
CanLoadPersisted(readOk) ==
    readOk /\ persisted.present /\ Len(persisted.musicFiles) > 0

\* A faulty variant of LoadPersistedMusic: a record is taken whatever its
\* track list holds.
LoadAnyRecord(files, idx, readOk) ==
    IF readOk /\ persisted.present
    THEN [loaded |-> TRUE, musicFiles |-> persisted.musicFiles,
          currentIndex |-> persisted.currentIndex]
    ELSE [loaded |-> FALSE, musicFiles |-> files, currentIndex |-> idx]

\* loadPersistedMusic() in a process whose playlist is files and whose index
\* is idx: what it returns and what the two variables hold afterwards.
LoadPersistedMusic(files, idx, readOk) ==
    IF CanLoadPersisted(readOk)
    THEN [loaded |-> TRUE, musicFiles |-> persisted.musicFiles,
          currentIndex |-> persisted.currentIndex]
    ELSE [loaded |-> FALSE, musicFiles |-> files, currentIndex |-> idx]

\* A faulty variant of FetchedMusic: no demo playlist to fall back on.
FetchedOrEmpty(readOk) ==
    IF CanLoadPersisted(readOk) THEN persisted.musicFiles ELSE << >>

\* fetchMusicFromChannel(): the cached list, else the demo playlist
\* (fetchFromChannelHistory never finds a message: channelMessages stays empty).
FetchedMusic(readOk) ==
    IF CanLoadPersisted(readOk) THEN persisted.musicFiles ELSE DemoPlaylist

\* The index fetchMusicFromChannel() leaves: only the load touches it.
FetchedIndex(readOk, idx) ==
    LoadPersistedMusic(<< >>, idx, readOk).currentIndex

(***************************************************************************)
(* server.js: playback requests.                                           *)
(***************************************************************************)
NextIndex(idx, n) == (idx + 1) % n

PreviousIndex(idx, n) == IF idx > 0 THEN idx - 1 ELSE n - 1

\* A faulty variant of IndexValid: off by one at the upper end.
IndexValidInclusive(index, n) == index >= 0 /\ index <= n

\* index >= 0 && index < musicFiles.length
IndexValid(index, n) == index >= 0 /\ index < n

\* A faulty variant of PositionValid: the sign is not looked at.
PositionIsNumber(p) == p.isNumber

\* typeof position === 'number' && position >= 0
PositionValid(p) == p.isNumber /\ p.value >= 0

SeekInputs ==
    [isNumber : {TRUE}, value : (0 - 1)..MaxPos] \cup {[isNumber |-> FALSE, value |-> 0]}

\* The indices a select request carries: from one below the range to past
\* the end of a playlist of NumFiles tracks.
IndexInputs == (0 - 1)..(NumFiles + 1)

ServerNext ==
    /\ deployment = "server"
    /\ IF Len(musicFiles) > 0
       THEN /\ currentIndex' = NextIndex(currentIndex, Len(musicFiles))
            /\ currentPosition' = 0
       ELSE UNCHANGED << currentIndex, currentPosition >>
    /\ resp' = [op |-> "next", success |-> TRUE]
    /\ hist' = Disturbed
    /\ UNCHANGED << pending, deployment, musicFiles, persisted, memoryCache, aliased,
                    channel, nextMsgId, updates, filesSeen, posts, faults, sync >>

ServerPrevious ==
    /\ deployment = "server"
    /\ IF Len(musicFiles) > 0
       THEN /\ currentIndex' = PreviousIndex(currentIndex, Len(musicFiles))
            /\ currentPosition' = 0
       ELSE UNCHANGED << currentIndex, currentPosition >>
    /\ resp' = [op |-> "previous", success |-> TRUE]
    /\ hist' = Disturbed
    /\ UNCHANGED << pending, deployment, musicFiles, persisted, memoryCache, aliased,
                    channel, nextMsgId, updates, filesSeen, posts, faults, sync >>

ServerPlay(index) ==
    /\ deployment = "server"
    /\ IF Len(musicFiles) > 0 /\ IndexValid(index, Len(musicFiles))
       THEN /\ currentIndex' = index
            /\ currentPosition' = 0
            /\ resp' = [op |-> "play", success |-> TRUE, maxIndex |-> Len(musicFiles) - 1]
       ELSE /\ UNCHANGED << currentIndex, currentPosition >>
            /\ resp' = [op |-> "play", success |-> FALSE, maxIndex |-> Len(musicFiles) - 1]
    /\ hist' = Disturbed
    /\ UNCHANGED << pending, deployment, musicFiles, persisted, memoryCache, aliased,
                    channel, nextMsgId, updates, filesSeen, posts, faults, sync >>

ServerSeek(p) ==
    /\ deployment = "server"
    /\ IF PositionValid(p)
       THEN /\ currentPosition' = p.value
            /\ resp' = [op |-> "seek", success |-> TRUE]
       ELSE /\ UNCHANGED currentPosition
            /\ resp' = [op |-> "seek", success |-> FALSE]
    /\ hist' = Disturbed
    /\ UNCHANGED << pending, deployment, musicFiles, currentIndex, persisted, memoryCache,
                    aliased, channel, nextMsgId, updates, filesSeen, posts, faults, sync >>

\* GET /api/music: bootstraps the playlist when it is empty.
ServerMusic(readOk) ==
    /\ deployment = "server"
    /\ Len(musicFiles) = 0
    /\ musicFiles' = FetchedMusic(readOk)
    /\ currentIndex' = FetchedIndex(readOk, currentIndex)
    /\ resp' = [op |-> "music", success |-> TRUE]
    /\ hist' = Disturbed
    /\ UNCHANGED << pending, deployment, currentPosition, persisted, memoryCache, aliased,
                    channel, nextMsgId, updates, filesSeen, posts, faults, sync >>

\* The process stops and starts again: module state is lost, initialize()
\* runs fetchMusicFromChannel().
ServerRestart(readOk) ==
    /\ deployment = "server"
    /\ musicFiles' = FetchedMusic(readOk)
    /\ currentIndex' = FetchedIndex(readOk, 0)
    /\ currentPosition' = 0
    /\ updates' = {}
    /\ sync' = IdleSync
    /\ resp' = NoResp
    /\ hist' = Disturbed
    /\ UNCHANGED << pending, deployment, persisted, memoryCache, aliased, channel, nextMsgId,
                    filesSeen, posts, faults >>

(***************************************************************************)
(* server.js: bot.on('channel_post').                                      *)
(***************************************************************************)
\* musicFiles.find(track => track.fileId === newTrack.fileId ||
\*                          track.title === newTrack.title)
\* A faulty variant of ExistingTrack: only the fileId is compared.
SameFileOnly(files, t) == \E k \in 1..Len(files) : files[k].fileId = t.fileId

ExistingTrack(files, t) ==
    \E k \in 1..Len(files) : files[k].fileId = t.fileId \/ files[k].title = t.title

\* The demo playlist gives way to the first real upload.
WithoutDemo(files) ==
    IF Len(files) > 0 /\ IsDemoTitle(files[1].title) THEN << >> ELSE files

\* link: what getFileLink answered ("ok"), or how it failed ("tooBig": the
\* handler still adds the track with a fallback URL; "error": it gives up).
\* The channel_post handler on a post: post.chat is the chat it comes from,
\* post.isAudioFile the outcome of the audio test, post.track the track the
\* handler builds from the payload and the message id.
OnChannelPost(post, link, writeOk) ==
    /\ Failure(link = "error")
    /\ LET kept == WithoutDemo(musicFiles) IN
       IF \/ post.chat # "channel"
          \/ ~post.isAudioFile
          \/ link = "error"
          \/ ExistingTrack(musicFiles, post.track)
       THEN UNCHANGED << musicFiles, currentIndex, persisted >>
       ELSE /\ musicFiles' = Append(kept, post.track)
            /\ currentIndex' = IF kept # musicFiles THEN 0 ELSE currentIndex
            /\ persisted' = SavePersistedMusic(musicFiles', currentIndex', writeOk)
    /\ hist' = Disturbed
    /\ UNCHANGED << pending, deployment, currentPosition, memoryCache, aliased, channel,
                    nextMsgId, filesSeen, posts, sync >>

\* The update of an audio post of the channel reaches the handler.
ChannelPost(u, link, writeOk) ==
    /\ deployment = "server"
    /\ u \in updates
    /\ updates' = updates \ {u}
    /\ resp' = NoResp
    /\ OnChannelPost([chat |-> "channel", isAudioFile |-> TRUE,
                      track |-> Track(u.file, u.messageId)], link, writeOk)

(***************************************************************************)
(* server.js: the sync pass, syncPlaylistWithChannel().  One step per      *)
(* awaited provider call; the code between two awaits runs with the step.  *)
(***************************************************************************)
\* A faulty variant of KeepLegacy: tracks without a messageId are passed
\* over without being kept.
RECURSIVE DropLegacy(_)
DropLegacy(sy) ==
    IF sy.i <= Len(sy.existingMusic) /\ sy.existingMusic[sy.i].messageId = 0
    THEN DropLegacy([sy EXCEPT !.probes = Append(@, "none"), !.i = @ + 1])
    ELSE [sy EXCEPT !.pc = IF sy.i <= Len(sy.existingMusic) THEN "validate"
                           ELSE "sendProbe"]

\* The for-loop of validateAndSyncByMessageIds up to its next await: tracks
\* without a messageId are kept without a probe.
RECURSIVE KeepLegacy(_)
KeepLegacy(sy) ==
    IF sy.i <= Len(sy.existingMusic) /\ sy.existingMusic[sy.i].messageId = 0
    THEN KeepLegacy([sy EXCEPT !.validTracks = Append(@, sy.existingMusic[sy.i]),
                               !.probes = Append(@, "none"),
                               !.i = @ + 1])
    ELSE [sy EXCEPT !.pc = IF sy.i <= Len(sy.existingMusic) THEN "validate"
                           ELSE "sendProbe"]

StartSync ==
    /\ deployment = "server"
    /\ sync.pc = "idle"
    /\ sync' = KeepLegacy([IdleSync EXCEPT !.existingMusic = musicFiles, !.i = 1])
    /\ hist' = [hist EXCEPT !.disturbed = FALSE, !.faulty = FALSE,
                             !.done = FALSE,
                             !.pass = [NoPass EXCEPT !.channel = channel]]
    /\ resp' = NoResp
    /\ UNCHANGED << pending, deployment, musicFiles, currentIndex, currentPosition,
                    persisted, memoryCache, aliased, channel, nextMsgId, updates,
                    filesSeen, posts, faults >>

\* What bot.forwardMessage('@username', CHANNEL_ID, messageId) can answer:
\* "ok", an error that says the message is not there ("notfound"), any
\* other error ("other"), or an error object without a message text
\* ("malformed"), on which the catch block itself throws.
ProbeOutcomes(m) ==
    (IF channel[m].kind = "none" THEN {"notfound"} ELSE {"ok"}) \cup {"other", "malformed"}

\* A faulty variant of ProbeRemoves: every failed probe removes the track.
ProbeRemovesAny(outcome) == outcome # "ok"

\* The catch block of the probe: not found / invalid id removes the track,
\* any other error keeps it.
ProbeRemoves(outcome) == outcome = "notfound"

\* A faulty variant of Unverified: the counter is never incremented.
UnverifiedNever(outcome) == FALSE

\* The else branch of the catch: the error is none of the not-found texts,
\* the track is kept and validationErrors++.
Unverified(outcome) == outcome # "ok" /\ ~ProbeRemoves(outcome)

\* The response of POST /api/refresh to a failed sync (server.js:1605-1626).
RefreshFailed(files) ==
    [op |-> "refresh", success |-> Len(files) = 0, outcome |-> FALSE,
     tracksRemoved |-> 0, tracksAdded |-> 0, totalTracks |-> 0,
     removedTracks |-> << >>, validationErrors |-> 0, error |-> "exception"]

Validate(outcome) ==
    /\ sync.pc = "validate"
    /\ LET track == sync.existingMusic[sync.i] IN
       /\ outcome \in ProbeOutcomes(track.messageId)
       /\ Failure(outcome \in {"other", "malformed"})
       /\ IF outcome = "malformed"
          THEN \* the exception reaches the catch of validateAndSyncByMessageIds
               /\ sync' = IdleSync
               /\ resp' = RefreshFailed(musicFiles)
               /\ musicFiles' = IF Len(musicFiles) = 0 THEN DemoPlaylist ELSE musicFiles
               /\ hist' = Disturbed
          ELSE /\ sync' = KeepLegacy(
                     [sync EXCEPT
                        !.validTracks = IF ProbeRemoves(outcome) THEN @ ELSE Append(@, track),
                        !.removedTracks = IF ProbeRemoves(outcome) THEN Append(@, track) ELSE @,
                        !.validationErrors = IF Unverified(outcome) THEN @ + 1 ELSE @,
                        !.probes = Append(@, outcome),
                        !.i = @ + 1])
               /\ hist' = Fault(hist, outcome = "other")
               /\ UNCHANGED << musicFiles, resp >>
    /\ UNCHANGED << pending, deployment, currentIndex, currentPosition, persisted,
                    memoryCache, aliased, channel, nextMsgId, updates, filesSeen, posts >>

\* A faulty variant of FinalTracks: the new tracks are left out.
RetainedOnly(validTracks, newTracks) == validTracks

\* A faulty variant of FinalTracks: the new tracks go in front.
NewTracksFirst(validTracks, newTracks) == newTracks \o validTracks

\* The end of validateAndSyncByMessageIds once scanForNewMessages has
\* returned: merge, save, adjust the index, build the outcome.
FinalTracks(validTracks, newTracks) == validTracks \o newTracks

\* A faulty variant of AdjustedIndex: the index is left as it is.
KeptIndex(idx, n) == idx

\* if (currentIndex >= musicFiles.length) currentIndex = 0
AdjustedIndex(idx, n) == IF idx >= n THEN 0 ELSE idx

SyncOutcome(sy, newTracks, total) ==
    [op |-> "refresh", success |-> TRUE, outcome |-> TRUE,
     tracksRemoved |-> Len(sy.removedTracks), tracksAdded |-> Len(newTracks),
     totalTracks |-> total, removedTracks |-> Titles(sy.removedTracks),
     validationErrors |-> sy.validationErrors, error |-> ""]

Finish(h, newTracks, writeOk, faultNow) ==
    LET finalTracks == FinalTracks(sync.validTracks, newTracks) IN
    /\ musicFiles' = finalTracks
    /\ persisted' = SavePersistedMusic(finalTracks, currentIndex, writeOk)
    /\ currentIndex' = AdjustedIndex(currentIndex, Len(finalTracks))
    /\ resp' = SyncOutcome(sync, newTracks, Len(finalTracks))
    /\ hist' = PassDone(h, sync, newTracks, faultNow)
    /\ sync' = IdleSync

\* bot.sendMessage(CHANNEL_ID, '🔍 Scanning...'): the probe for the head id.
\* A failure lands in the catch (scanError): the scan returns no new track.
SendProbe(ok, writeOk) ==
    /\ sync.pc = "sendProbe"
    /\ Failure(~ok)
    /\ ok => nextMsgId <= MaxMsgId
    /\ IF ok
       THEN /\ channel' = [channel EXCEPT ![nextMsgId] = TextMsg]
            /\ nextMsgId' = nextMsgId + 1
            /\ sync' = [sync EXCEPT !.pc = "deleteProbe", !.latestMessageId = nextMsgId]
            /\ UNCHANGED << musicFiles, currentIndex, persisted, resp, hist >>
       ELSE /\ Finish(hist, << >>, writeOk, TRUE)
            /\ UNCHANGED << channel, nextMsgId >>
    /\ UNCHANGED << pending, deployment, currentPosition, memoryCache, aliased, updates,
                    filesSeen, posts >>

\* A faulty variant of SkipKnown: the scan counts no probes and goes on down
\* to the first message of the channel.
RECURSIVE ScanToStart(_)
ScanToStart(sy) ==
    IF sy.msgId > 0
    THEN IF sy.msgId \in MessageIdsOf(sy.validTracks)
         THEN ScanToStart([sy EXCEPT !.msgId = @ - 1])
         ELSE [sy EXCEPT !.pc = "forward"]
    ELSE [sy EXCEPT !.pc = "finish"]

\* A faulty variant of SkipKnown: the loop has no end, it goes back to the
\* id it has just left.
ScanForever(sy) ==
    [sy EXCEPT !.pc = "forward", !.msgId = IF sy.msgId > 0 THEN sy.msgId ELSE 1]

\* A faulty variant of SkipKnown: ids that already have a track are probed
\* like any other.
ScanAll(sy) ==
    IF sy.msgId > 0 /\ sy.scanCount < MaxScanCount
    THEN [sy EXCEPT !.pc = "forward", !.scanCount = @ + 1]
    ELSE [sy EXCEPT !.pc = "finish"]

\* The for-loop of scanForNewMessages up to its next await: ids that already
\* have a track are skipped without a provider call.
RECURSIVE SkipKnown(_)
SkipKnown(sy) ==
    IF sy.msgId > 0 /\ sy.scanCount < MaxScanCount
    THEN IF sy.msgId \in MessageIdsOf(sy.validTracks)
         THEN SkipKnown([sy EXCEPT !.msgId = @ - 1, !.scanCount = @ + 1])
         ELSE [sy EXCEPT !.pc = "forward", !.scanCount = @ + 1]
    ELSE [sy EXCEPT !.pc = "finish"]

\* After an awaited call of the scan: on with the loop, or, when the loop is
\* over, the rest of validateAndSyncByMessageIds in the same turn.
Continue(h, sy, writeOk, faultNow) ==
    LET nxt == SkipKnown(sy) IN
    IF nxt.pc = "finish"
    THEN Finish(h, sy.newTracks, writeOk, faultNow)
    ELSE /\ sync' = nxt
         /\ hist' = Fault(h, faultNow)
         /\ UNCHANGED << musicFiles, currentIndex, persisted, resp >>

\* bot.deleteMessage(CHANNEL_ID, latestMessageId)
DeleteProbe(ok, writeOk) ==
    /\ sync.pc = "deleteProbe"
    /\ Failure(~ok)
    /\ IF ok
       THEN /\ channel' = Deleted(channel, sync.latestMessageId)
            /\ Continue(hist, [sync EXCEPT !.msgId = sync.latestMessageId - 1,
                                           !.scanCount = 0], writeOk, FALSE)
       ELSE /\ Finish(Stuck(hist, TRUE), << >>, writeOk, TRUE)
            /\ UNCHANGED channel
    /\ UNCHANGED << pending, deployment, currentPosition, memoryCache, aliased, nextMsgId,
                    updates, filesSeen, posts >>

\* bot.forwardMessage(CHANNEL_ID, CHANNEL_ID, msgId): the copy lands in the
\* channel under the next id and carries the original's payload.
Forward(ok, writeOk) ==
    /\ sync.pc = "forward"
    /\ LET m == sync.msgId
           there == channel[m].kind # "none"
           sent == ok /\ there
       IN /\ sent => nextMsgId <= MaxMsgId
          /\ Failure(there /\ ~ok)
          /\ IF sent
             THEN /\ channel' = [channel EXCEPT ![nextMsgId] = CopyOf(channel[m])]
                  /\ nextMsgId' = nextMsgId + 1
                  /\ sync' = [sync EXCEPT
                                !.pc = IF IsAudioFile(channel[m]) THEN "fileLink"
                                       ELSE "cleanup",
                                !.fwdId = nextMsgId, !.fwdFile = channel[m].file]
                  /\ hist' = Scanned(hist, m)
                  /\ UNCHANGED << musicFiles, currentIndex, persisted, resp >>
             ELSE /\ Continue(Scanned(hist, m), [sync EXCEPT !.msgId = @ - 1],
                             writeOk, there)
                  /\ UNCHANGED << channel, nextMsgId >>
    /\ UNCHANGED << pending, deployment, currentPosition, memoryCache, aliased, updates,
                    filesSeen, posts >>

\* A faulty variant of OriginalId: the track takes the id of the copy.
CopyId(sy) == sy.fwdId

\* The messageId a found track is recorded under: the id that was scanned,
\* not the id of the forwarded copy.
OriginalId(sy) == sy.msgId

\* bot.getFileLink(audioFile.file_id), then newTracks.push(track)
FileLink(ok) ==
    /\ sync.pc = "fileLink"
    /\ Failure(~ok)
    /\ sync' = [sync EXCEPT
                  !.pc = "cleanup",
                  !.newTracks = IF ok THEN Append(@, Track(sync.fwdFile, OriginalId(sync))) ELSE @]
    /\ hist' = Fault(hist, ~ok)
    /\ UNCHANGED << pending, deployment, musicFiles, currentIndex, currentPosition,
                    persisted, memoryCache, aliased, channel, nextMsgId, updates,
                    filesSeen, posts, resp >>

\* bot.deleteMessage(CHANNEL_ID, messageInfo.message_id); errors are ignored.
Cleanup(ok, writeOk) ==
    /\ sync.pc = "cleanup"
    /\ Failure(~ok)
    /\ channel' = IF ok THEN Deleted(channel, sync.fwdId) ELSE channel
    /\ Continue(Stuck(hist, ~ok),
                [sync EXCEPT !.msgId = @ - 1, !.fwdId = 0, !.fwdFile = 0], writeOk, ~ok)
    /\ UNCHANGED << pending, deployment, currentPosition, memoryCache, aliased, nextMsgId,
                    updates, filesSeen, posts >>

(***************************************************************************)
(* functions/api.js with functions/storage.js: the serverless player.  One *)
(* request is served at a time, so a handler is one step.                  *)
(***************************************************************************)
\* The scan of the refresh reaches back maxScan ids and stops at 50 tracks.
ApiMaxScan == 500
ApiMaxFound == 50

Max(a, b) == IF a > b THEN a ELSE b

\* storage.loadData(): the memory cache when the instance has one, else the
\* blob, which then becomes the memory cache.
LoadData(cache, readOk) ==
    IF cache.present THEN cache
    ELSE IF readOk /\ persisted.present THEN persisted ELSE None

\* loadMusicData() over storage.loadPersistedMusic() in an instance whose
\* memory cache is cache, whose playlist is files and whose index is idx:
\* what it returns and what the variables hold afterwards (loadData() keeps
\* the record it read as the memory cache, empty or not).
LoadMusicData(cache, files, idx, readOk) ==
    LET cached == LoadData(cache, readOk) IN
    IF cached.present /\ Len(cached.musicFiles) > 0
    THEN [loaded |-> TRUE, musicFiles |-> cached.musicFiles,
          currentIndex |-> cached.currentIndex, memoryCache |-> cached]
    ELSE [loaded |-> FALSE, musicFiles |-> files, currentIndex |-> idx,
          memoryCache |-> cached]

\* initializeMusic() in an instance whose memory cache is cache and whose
\* index is idx: loadMusicData() takes the cached list (the very array of the
\* cache) when storage.loadPersistedMusic() finds a non-empty one; otherwise
\* loadChannelMusic() makes musicFiles a fresh empty array.
InitializeMusic(cache, idx, readOk) ==
    LET load == LoadMusicData(cache, << >>, idx, readOk) IN
    IF load.loaded /\ Len(load.musicFiles) > 0
    THEN [musicFiles |-> load.musicFiles, currentIndex |-> load.currentIndex,
          memoryCache |-> load.memoryCache, aliased |-> TRUE]
    ELSE [musicFiles |-> << >>, currentIndex |-> load.currentIndex,
          memoryCache |-> load.memoryCache, aliased |-> FALSE]

\* if (musicFiles.length === 0) await initializeMusic();
Lazy(readOk) ==
    IF Len(musicFiles) = 0 THEN InitializeMusic(memoryCache, currentIndex, readOk)
    ELSE [musicFiles |-> musicFiles, currentIndex |-> currentIndex,
          memoryCache |-> memoryCache, aliased |-> aliased]

\* storage.saveData(): the blob write sits in a try/catch of its own.
SaveBlob(files, idx, writeOk) ==
    IF writeOk THEN Record(files, idx) ELSE persisted

\* A request that leaves the instance as the lazy initialisation left it.
Settle(st) ==
    /\ musicFiles' = st.musicFiles
    /\ currentIndex' = st.currentIndex
    /\ memoryCache' = st.memoryCache
    /\ aliased' = st.aliased

\* A faulty variant of MoveTo: a failed write takes the move back.
MoveIfWritten(st, idx, writeOk) ==
    /\ musicFiles' = st.musicFiles
    /\ currentIndex' = IF writeOk THEN idx ELSE st.currentIndex
    /\ currentPosition' = 0
    /\ memoryCache' = IF writeOk THEN Record(st.musicFiles, idx) ELSE st.memoryCache
    /\ aliased' = TRUE
    /\ persisted' = SaveBlob(st.musicFiles, idx, writeOk)

\* The request moves to index idx: saveMusicData() makes the memory cache a
\* record around the array musicFiles names and writes the blob.
MoveTo(st, idx, writeOk) ==
    /\ musicFiles' = st.musicFiles
    /\ currentIndex' = idx
    /\ currentPosition' = 0
    /\ memoryCache' = Record(st.musicFiles, idx)
    /\ aliased' = TRUE
    /\ persisted' = SaveBlob(st.musicFiles, idx, writeOk)

ApiAll ==
    /\ deployment = "serverless"
    /\ hist' = Disturbed
    /\ UNCHANGED << pending, deployment, channel, nextMsgId, updates, filesSeen, posts,
                    faults, sync >>

ApiPlaylist(readOk) ==
    /\ ApiAll
    /\ Settle(Lazy(readOk))
    /\ resp' = [op |-> "playlist", success |-> TRUE]
    /\ UNCHANGED << currentPosition, persisted >>

ApiNext(readOk, writeOk) ==
    /\ ApiAll
    /\ LET st == Lazy(readOk)
           n == Len(st.musicFiles)
       IN IF n > 0
          THEN /\ MoveTo(st, NextIndex(st.currentIndex, n), writeOk)
               /\ resp' = [op |-> "next", success |-> TRUE]
          ELSE /\ Settle(st)
               /\ resp' = [op |-> "next", success |-> FALSE]
               /\ UNCHANGED << currentPosition, persisted >>

ApiPrev(readOk, writeOk) ==
    /\ ApiAll
    /\ LET st == Lazy(readOk)
           n == Len(st.musicFiles)
       IN IF n > 0
          THEN /\ MoveTo(st, PreviousIndex(st.currentIndex, n), writeOk)
               /\ resp' = [op |-> "previous", success |-> TRUE]
          ELSE /\ Settle(st)
               /\ resp' = [op |-> "previous", success |-> FALSE]
               /\ UNCHANGED << currentPosition, persisted >>

ApiTrack(index, readOk, writeOk) ==
    /\ ApiAll
    /\ LET st == Lazy(readOk)
           n == Len(st.musicFiles)
       IN IF IndexValid(index, n)
          THEN /\ MoveTo(st, index, writeOk)
               /\ resp' = [op |-> "play", success |-> TRUE, maxIndex |-> n - 1]
          ELSE /\ Settle(st)
               /\ resp' = [op |-> "play", success |-> FALSE, maxIndex |-> n - 1]
               /\ UNCHANGED << currentPosition, persisted >>

ApiSeek(p) ==
    /\ ApiAll
    /\ IF PositionValid(p)
       THEN /\ currentPosition' = p.value
            /\ resp' = [op |-> "seek", success |-> TRUE]
       ELSE /\ UNCHANGED currentPosition
            /\ resp' = [op |-> "seek", success |-> FALSE]
    /\ UNCHANGED << musicFiles, currentIndex, persisted, memoryCache, aliased >>

\* A new instance serves the next request: module state and the memory cache
\* start afresh, the blob stays.
ColdStart ==
    /\ ApiAll
    /\ musicFiles' = << >>
    /\ currentIndex' = 0
    /\ currentPosition' = 0
    /\ memoryCache' = None
    /\ aliased' = FALSE
    /\ resp' = NoResp
    /\ UNCHANGED persisted

(***************************************************************************)
(* functions/api.js: POST /refresh.                                        *)
(***************************************************************************)
\* musicFiles.length = 0 and musicFiles.splice(...) change the array in
\* place: a memory cache built around that array changes with it.
InPlace(cache, isAliased, files) ==
    IF isAliased /\ cache.present THEN [cache EXCEPT !.musicFiles = files] ELSE cache

\* No provider call of the scan fails.
NoFails == [forward |-> {}, link |-> {}]

\* A faulty variant of ScanUntil: the loop has no break and scans its whole
\* window however many tracks it has found.
RECURSIVE ScanOn(_, _, _, _, _)
ScanOn(msgId, floor, maxFound, fails, acc) ==
    IF msgId <= floor THEN acc
    ELSE LET tried == [acc EXCEPT !.probed = @ \cup {msgId}] IN
         IF channel[msgId].kind = "none" \/ msgId \in fails.forward
         THEN ScanOn(msgId - 1, floor, maxFound, fails, tried)
         ELSE LET found == IF IsAudioFile(channel[msgId]) /\ msgId \notin fails.link
                           THEN Append(acc.found, Track(channel[msgId].file, msgId))
                           ELSE acc.found
              IN ScanOn(msgId - 1, floor, maxFound, fails,
                        [tried EXCEPT !.found = found, !.copies = @ + 1])

\* A faulty variant of ScanUntil: a forward or a file link that fails for a
\* message that is there ends the scan.
RECURSIVE ScanOrStop(_, _, _, _, _)
ScanOrStop(msgId, floor, maxFound, fails, acc) ==
    IF msgId <= floor THEN acc
    ELSE LET tried == [acc EXCEPT !.probed = @ \cup {msgId}] IN
         IF channel[msgId].kind = "none"
         THEN ScanOrStop(msgId - 1, floor, maxFound, fails, tried)
         ELSE IF msgId \in fails.forward THEN tried
         ELSE IF msgId \in fails.link THEN [tried EXCEPT !.copies = @ + 1]
         ELSE LET found == IF IsAudioFile(channel[msgId])
                           THEN Append(acc.found, Track(channel[msgId].file, msgId))
                           ELSE acc.found
                  more == [tried EXCEPT !.found = found, !.copies = @ + 1]
              IN IF Len(found) >= maxFound THEN more
                 ELSE ScanOrStop(msgId - 1, floor, maxFound, fails, more)

\* The loop of enhancedChannelScan from msgId down to (not including) floor,
\* with the channel as it is: a forward of a missing message fails, as does
\* the forward of a message in fails.forward, and the loop goes on; every
\* forward that succeeds leaves a copy, deleted at once; a track whose file
\* link fails (fails.link) is not added. acc.probed collects the ids the
\* loop called forwardMessage for. The loop ends after the forward that
\* brings the tracks found to maxFound.
RECURSIVE ScanUntil(_, _, _, _, _)
ScanUntil(msgId, floor, maxFound, fails, acc) ==
    IF msgId <= floor THEN acc
    ELSE LET tried == [acc EXCEPT !.probed = @ \cup {msgId}] IN
         IF channel[msgId].kind = "none" \/ msgId \in fails.forward
         THEN ScanUntil(msgId - 1, floor, maxFound, fails, tried)
         ELSE LET found == IF IsAudioFile(channel[msgId]) /\ msgId \notin fails.link
                           THEN Append(acc.found, Track(channel[msgId].file, msgId))
                           ELSE acc.found
                  more == [tried EXCEPT !.found = found, !.copies = @ + 1]
              IN IF Len(found) >= maxFound THEN more
                 ELSE ScanUntil(msgId - 1, floor, maxFound, fails, more)

EnhancedScan(msgId, floor, acc) == ScanUntil(msgId, floor, ApiMaxFound, NoFails, acc)

\* foundTracks.sort((a, b) => a.messageId - b.messageId)
RECURSIVE Insert(_, _)
Insert(t, sorted) ==
    IF sorted = << >> THEN << t >>
    ELSE IF t.messageId - Head(sorted).messageId < 0 THEN << t >> \o sorted
    ELSE << Head(sorted) >> \o Insert(t, Tail(sorted))

RECURSIVE SortByMessageId(_)
SortByMessageId(tracks) ==
    IF tracks = << >> THEN << >>
    ELSE Insert(Head(tracks), SortByMessageId(Tail(tracks)))

\* outcome: "ok" when every provider call answers; "unreachable" when
\* getChat, getMe, getChatAdministrators or the probe's sendMessage fails or
\* the bot is no administrator; "probeStuck" when the probe cannot be
\* deleted.  Every failure ends in the catch of the scan, which returns [].
Refresh(outcome, fails, readOk, writeOk) ==
    /\ deployment = "serverless"
    /\ Failure(outcome # "ok" \/ fails # NoFails)
    /\ LET cleared == InPlace(memoryCache, aliased, << >>)
           head == nextMsgId
           scan == IF outcome = "ok"
                   THEN ScanUntil(head - 1, Max(1, head - ApiMaxScan), ApiMaxFound, fails,
                                   [found |-> << >>, copies |-> 0, probed |-> {}])
                   ELSE [found |-> << >>, copies |-> 0, probed |-> {}]
           scannedTracks == SortByMessageId(scan.found)
           used == IF outcome = "unreachable" THEN 0 ELSE 1 + scan.copies
           init == InitializeMusic(cleared, 0, readOk)
       IN /\ nextMsgId + used <= MaxMsgId + 1
          /\ nextMsgId' = nextMsgId + used
          /\ channel' = IF outcome = "probeStuck"
                        THEN [channel EXCEPT ![head] = TextMsg] ELSE channel
          /\ IF Len(scannedTracks) > 0
             THEN /\ musicFiles' = scannedTracks
                  /\ currentIndex' = 0
                  /\ memoryCache' = Record(scannedTracks, 0)
                  /\ aliased' = TRUE
                  /\ persisted' = SaveBlob(scannedTracks, 0, writeOk)
             ELSE /\ Settle(init)
                  /\ UNCHANGED persisted
          /\ resp' = [op |-> "refresh", success |-> TRUE, outcome |-> outcome = "ok",
                      tracks |-> Len(musicFiles'),
                      head |-> IF outcome = "unreachable" THEN 0 ELSE head,
                      scanned |-> scan.probed, fails |-> fails]
    /\ hist' = Disturbed
    /\ UNCHANGED << pending, deployment, currentPosition, updates, filesSeen, posts, sync >>

\* POST /refresh with a scan whose provider calls all answer.
ApiRefresh(outcome, readOk, writeOk) == Refresh(outcome, NoFails, readOk, writeOk)

(***************************************************************************)
(* The specifications.                                                     *)
(***************************************************************************)
\* The store takes every write (a full disk is not part of this model).
WriteOutcomes == {TRUE}

\* No sync pass is under way.
Idle == sync.pc = "idle"

\* Users upload each file once and every upload is announced to the bot.
Upload(f) == f = filesSeen + 1 /\ UserPost(f, TRUE)

\* The players, one operation at a time: a sync pass runs to its end before
\* the next request, upload or restart, the server's provider calls answer
\* what the channel's contents call for, and no post is deleted.
Next ==
    \/ Idle /\ ServerNext
    \/ Idle /\ ServerPrevious
    \/ \E index \in IndexInputs : Idle /\ ServerPlay(index)
    \/ \E p \in SeekInputs : Idle /\ ServerSeek(p)
    \/ \E readOk \in BOOLEAN : Idle /\ ServerRestart(readOk)
    \/ \E u \in updates, link \in {"ok", "tooBig"}, writeOk \in WriteOutcomes :
          Idle /\ ChannelPost(u, link, writeOk)
    \/ StartSync
    \/ \E outcome \in {"ok", "notfound"} : Validate(outcome)
    \/ \E writeOk \in WriteOutcomes : SendProbe(TRUE, writeOk)
    \/ \E writeOk \in WriteOutcomes : DeleteProbe(TRUE, writeOk)
    \/ \E writeOk \in WriteOutcomes : Forward(TRUE, writeOk)
    \/ FileLink(TRUE)
    \/ \E writeOk \in WriteOutcomes : Cleanup(TRUE, writeOk)
    \/ \E readOk \in BOOLEAN : ApiPlaylist(readOk)
    \/ \E readOk \in BOOLEAN, writeOk \in BOOLEAN : ApiNext(readOk, writeOk)
    \/ \E readOk \in BOOLEAN, writeOk \in BOOLEAN : ApiPrev(readOk, writeOk)
    \/ \E index \in IndexInputs, readOk \in BOOLEAN, writeOk \in BOOLEAN :
          ApiTrack(index, readOk, writeOk)
    \/ \E p \in SeekInputs : ApiSeek(p)
    \/ \E outcome \in {"ok", "unreachable", "probeStuck"}, readOk \in BOOLEAN,
          writeOk \in BOOLEAN : ApiRefresh(outcome, readOk, writeOk)
    \/ ColdStart
    \/ \E f \in Files : Idle /\ Upload(f)

Spec == Init /\ [][Next]_vars

\* The same with posts that get deleted; a playlist a pass has emptied is
\* filled again by GET /api/music.
NextChurn ==
    \/ Next
    \/ \E m \in MsgIds : Idle /\ DeletePost(m)
    \/ \E readOk \in BOOLEAN : Idle /\ ServerMusic(readOk)

SpecChurn == Init /\ [][NextChurn]_vars

\* The server's sync pass with a provider whose calls can fail and users who
\* post up to MaxPosts times (any file, announced or not) and delete.
InitServer == Init /\ deployment = "server"

NextSync ==
    \/ \E f \in Files, notify \in BOOLEAN :
          Idle /\ posts < MaxPosts /\ UserPost(f, notify)
    \/ \E m \in MsgIds : Idle /\ DeletePost(m)
    \/ \E u \in updates, link \in {"ok", "tooBig", "error"}, writeOk \in WriteOutcomes :
          Idle /\ ChannelPost(u, link, writeOk)
    \/ \E readOk \in BOOLEAN : Idle /\ ServerRestart(readOk)
    \/ StartSync
    \/ \E outcome \in {"ok", "notfound", "other", "malformed"} : Validate(outcome)
    \/ \E ok \in BOOLEAN, writeOk \in WriteOutcomes : SendProbe(ok, writeOk)
    \/ \E ok \in BOOLEAN, writeOk \in WriteOutcomes : DeleteProbe(ok, writeOk)
    \/ \E ok \in BOOLEAN, writeOk \in WriteOutcomes : Forward(ok, writeOk)
    \/ \E ok \in BOOLEAN : FileLink(ok)
    \/ \E ok \in BOOLEAN, writeOk \in WriteOutcomes : Cleanup(ok, writeOk)

SpecSync == InitServer /\ [][NextSync]_vars

\* A step of the pass in flight: the provider call it awaits returns or
\* raises.
PassStep ==
    \/ \E outcome \in {"ok", "notfound", "other", "malformed"} : Validate(outcome)
    \/ \E ok \in BOOLEAN, writeOk \in WriteOutcomes : SendProbe(ok, writeOk)
    \/ \E ok \in BOOLEAN, writeOk \in WriteOutcomes : DeleteProbe(ok, writeOk)
    \/ \E ok \in BOOLEAN, writeOk \in WriteOutcomes : Forward(ok, writeOk)
    \/ \E ok \in BOOLEAN : FileLink(ok)
    \/ \E ok \in BOOLEAN, writeOk \in WriteOutcomes : Cleanup(ok, writeOk)

\* The channel still has the ids a pass can use up: one for the probe and
\* one for each id of the scan window.
RoomForPass == nextMsgId + MaxScanCount <= MaxMsgId

\* SpecSync with passes that start only while the model's id range has room
\* for them, and with every awaited provider call returning or raising in
\* the end.
NextFair ==
    \/ \E f \in Files, notify \in BOOLEAN :
          Idle /\ posts < MaxPosts /\ UserPost(f, notify)
    \/ \E m \in MsgIds : Idle /\ DeletePost(m)
    \/ \E u \in updates, link \in {"ok", "tooBig", "error"}, writeOk \in WriteOutcomes :
          Idle /\ ChannelPost(u, link, writeOk)
    \/ \E readOk \in BOOLEAN : Idle /\ ServerRestart(readOk)
    \/ RoomForPass /\ StartSync
    \/ PassStep

SpecFair == InitServer /\ [][NextFair]_vars /\ WF_vars(PassStep)

\* Both players' passes over the channel with a provider whose calls can
\* fail: the server's sync pass as in SpecSync, the serverless refresh with
\* instances that come and go, and both players' playlist requests.
NextPass ==
    \/ NextSync
    \/ \E outcome \in {"ok", "unreachable", "probeStuck"}, readOk \in BOOLEAN,
          writeOk \in BOOLEAN : ApiRefresh(outcome, readOk, writeOk)
    \/ \E readOk \in BOOLEAN : ApiPlaylist(readOk)
    \/ ColdStart
    \/ \E readOk \in BOOLEAN : Idle /\ ServerMusic(readOk)

SpecPass == Init /\ [][NextPass]_vars

\* The players of Spec with a store whose writes can fail (disk full, blob
\* store unreachable): the server's handler and pass go on after a failed
\* savePersistedMusic(), as the serverless requests of Next already do.
NextStore ==
    \/ Next
    \/ \E u \in updates, link \in {"ok", "tooBig"} : Idle /\ ChannelPost(u, link, FALSE)
    \/ DeleteProbe(TRUE, FALSE)
    \/ Forward(TRUE, FALSE)
    \/ Cleanup(TRUE, FALSE)

SpecStore == Init /\ [][NextStore]_vars

\* One provider call of the serverless scan fails: the forward of message m
\* ("forward") or the file link of its audio ("link").
OneFails(m, call) ==
    [forward |-> IF call = "forward" THEN {m} ELSE {},
     link |-> IF call = "link" THEN {m} ELSE {}]

\* The passes of both deployments, with a serverless scan in which a provider
\* call for a message that is there fails.
NextScan ==
    \/ NextPass
    \/ \E m \in 2..MaxMsgId, call \in {"forward", "link"}, readOk \in BOOLEAN,
          writeOk \in BOOLEAN :
          /\ m < nextMsgId
          /\ IF call = "link" THEN IsAudioFile(channel[m]) ELSE channel[m].kind # "none"
          /\ Refresh("ok", OneFails(m, call), readOk, writeOk)

SpecScan == Init /\ [][NextScan]_vars

\* The server with uploads that arrive, and are handled, while a sync pass is
\* in flight: the channel_post callback runs between two awaits of the pass.
NextUpload ==
    \/ NextSync
    \/ \E f \in Files, notify \in BOOLEAN :
          ~Idle /\ posts < MaxPosts /\ UserPost(f, notify)
    \/ \E u \in updates, link \in {"ok", "tooBig", "error"}, writeOk \in WriteOutcomes :
          ~Idle /\ ChannelPost(u, link, writeOk)

SpecUpload == InitServer /\ [][NextUpload]_vars

\* The posts the handler is to ignore: from another chat, without an audio
\* payload, or with the fileId or the title of a track of the playlist. The
\* title comes from the payload and need not go with the fileId.
IgnoredPosts ==
    {post \in [chat : {"channel", "other"}, isAudioFile : BOOLEAN,
               track : [title : {TitleOf(f) : f \in Files}, fileId : Files,
                        messageId : {nextMsgId}]] :
        \/ post.chat # "channel"
        \/ ~post.isAudioFile
        \/ \E k \in 1..Len(musicFiles) :
              \/ musicFiles[k].fileId = post.track.fileId
              \/ musicFiles[k].title = post.track.title}

\* Such a post reaches the handler; resp keeps the post the handler logs.
StrayPost(post, link, writeOk) ==
    /\ deployment = "server"
    /\ resp' = [op |-> "channel_post", post |-> post]
    /\ UNCHANGED updates
    /\ OnChannelPost(post, link, writeOk)

\* The channel_post handler of the server with the posts it adds and the
\* posts it ignores, between playback requests.
NextPost ==
    \/ \E f \in Files, notify \in BOOLEAN : posts < MaxPosts /\ UserPost(f, notify)
    \/ \E u \in updates, link \in {"ok", "tooBig", "error"}, writeOk \in BOOLEAN :
          ChannelPost(u, link, writeOk)
    \/ \E post \in IgnoredPosts, link \in {"ok", "tooBig", "error"}, writeOk \in BOOLEAN :
          StrayPost(post, link, writeOk)
    \/ ServerNext

SpecPost == InitServer /\ [][NextPost]_vars

(***************************************************************************)
(* The audio test of the handlers that build tracks.                       *)
(***************************************************************************)
\* A file name and a MIME type are sequences of pieces; << >> stands for a
\* field the provider has left out.
FileNames ==
    {<< >>, <<"song", ".", "mp3">>, <<"song", ".", "MP3">>, <<"song", ".", "mp4">>,
     <<"song", ".", "txt">>, <<"mp3">>, <<"song", ".", "mp3", ".", "txt">>,
     <<"song", ".", "flac">>}

MimeTypes == {<< >>, <<"audio", "/", "mpeg">>, <<"video", "/", "mp4">>}

Payloads == [mime_type : MimeTypes, file_name : FileNames]

\* A message of the provider carries at most one of audio, voice and
\* document; field is "none" for a message without any.
Messages ==
    {[field |-> "none", file |-> [mime_type |-> << >>, file_name |-> << >>]]}
        \cup [field : {"audio", "voice", "document"}, file : Payloads]

Lower(piece) ==
    CASE piece = "MP3" -> "mp3"
      [] OTHER -> piece

\* A faulty variant of AudioExtensions: mp4 is missing, as in the list of
\* fetchFromChannelHistory.
HistoryExtensions == {"mp3", "wav", "ogg", "m4a", "flac", "aac"}

\* /\.(mp3|wav|ogg|m4a|flac|aac|mp4)$/i
AudioExtensions == {"mp3", "wav", "ogg", "m4a", "flac", "aac", "mp4"}

\* file_name?.match(/\.(...)$/i): the name ends in a dot and an extension.
MatchesExtension(name) ==
    /\ Len(name) >= 2
    /\ name[Len(name) - 1] = "."
    /\ Lower(name[Len(name)]) \in AudioExtensions

\* mime_type?.includes('audio')
IncludesAudio(mime) == \E i \in 1..Len(mime) : mime[i] = "audio"

\* const audioFile = msg.audio || msg.voice || msg.document;
\* if (audioFile) { isAudioFile = audioFile.mime_type?.includes('audio') ||
\*     audioFile.file_name?.match(...) || msg.audio }
IsAudioMessage(msg) ==
    /\ msg.field # "none"
    /\ \/ IncludesAudio(msg.file.mime_type)
       \/ MatchesExtension(msg.file.file_name)
       \/ msg.field = "audio"

\* The handlers that run the audio test on a message: the channel_post
\* handler, the loader from recent updates and the scan of the server, and
\* the scan of the serverless API.
Handlers == {"channel_post", "updates", "scanForNewMessages", "enhancedChannelScan"}

\* One handler tests one message.
Classify(handler, msg) ==
    /\ deployment = IF handler = "enhancedChannelScan" THEN "serverless" ELSE "server"
    /\ resp' = [op |-> "classify", handler |-> handler, msg |-> msg,
                isAudioFile |-> IsAudioMessage(msg)]
    /\ UNCHANGED << deployment, musicFiles, currentIndex, currentPosition, persisted,
                    memoryCache, aliased, channel, nextMsgId, updates, filesSeen,
                    posts, faults, sync, pending, hist >>

\* fetchFromChannelHistory: channelMessages is declared empty and nothing is
\* ever pushed to it, so its loop tests no message and finds no music.
channelMessages == << >>

FetchFromChannelHistory ==
    /\ deployment = "server"
    /\ resp' = [op |-> "history",
                found |-> [i \in 1..Len(channelMessages) |-> channelMessages[i]]]
    /\ UNCHANGED << deployment, musicFiles, currentIndex, currentPosition, persisted,
                    memoryCache, aliased, channel, nextMsgId, updates, filesSeen,
                    posts, faults, sync, pending, hist >>

NextClassify ==
    \/ \E handler \in Handlers, msg \in Messages : Classify(handler, msg)
    \/ FetchFromChannelHistory

SpecClassify == Init /\ [][NextClassify]_vars

(***************************************************************************)
(* The current-track request.  Every track the players build carries the   *)
(* url getFileLink gave (or a fallback url), so a track without one comes   *)
(* from a record the store was given: music_cache.json or MUSIC_CACHE_DATA *)
(* written by hand or by an earlier version.  The specification starts     *)
(* with a playlist loaded from such a record: tracks here carry one more   *)
(* field, url, "" when it is missing.                                      *)
(***************************************************************************)
\* Tracks a stored record can hold in this specification.
MaxStored == 2

UrlTrack(f, u) == [title |-> TitleOf(f), fileId |-> f, messageId |-> f, url |-> u]

\* A legacy entry: neither fileId nor url.
LegacyTrack == [title |-> "Demo Song 1", fileId |-> 0, messageId |-> 0, url |-> ""]

StoredTracks == {UrlTrack(f, u) : f \in 1..MaxStored, u \in {"", "link"}} \cup {LegacyTrack}

StoredPlaylists == UNION {[1..n -> StoredTracks] : n \in 0..MaxStored}

\* !track.url && track.fileId (the tracks the players build themselves have
\* a url and carry no url field in the model).
NeedsUrl(track) == "url" \in DOMAIN track /\ track.url = "" /\ track.fileId # 0

\* track.url = await bot.getFileLink(track.fileId): the entry is patched in
\* place.
Patched(files, idx) == [files EXCEPT ![idx + 1].url = "link"]

InitCurrent ==
    /\ deployment \in {"server", "serverless"}
    /\ musicFiles \in StoredPlaylists
    /\ currentIndex \in 0..(MaxStored - 1)
    /\ currentIndex < Len(musicFiles) \/ currentIndex = 0
    /\ currentPosition = 0
    /\ persisted = Record(musicFiles, currentIndex)
    /\ memoryCache = IF deployment = "serverless" /\ Len(musicFiles) > 0
                     THEN persisted ELSE None
    /\ aliased = (deployment = "serverless" /\ Len(musicFiles) > 0)
    /\ channel = [m \in MsgIds |-> NoMsg]
    /\ nextMsgId = 1
    /\ updates = {}
    /\ filesSeen = 0
    /\ posts = 0
    /\ faults = 0
    /\ sync = IdleSync
    /\ resp = NoResp
    /\ pending = NoRequest
    /\ hist = Disturbed

\* app.get('/api/current'): the track as the playlist holds it.
ServerCurrent ==
    /\ deployment = "server"
    /\ resp' = IF Len(musicFiles) > 0
               THEN [op |-> "current", success |-> TRUE, error |-> "",
                     track |-> IF currentIndex < Len(musicFiles)
                               THEN << musicFiles[currentIndex + 1] >> ELSE << >>,
                     index |-> currentIndex, total |-> Len(musicFiles)]
               ELSE [op |-> "current", success |-> TRUE, error |-> "", track |-> << >>,
                     index |-> 0, total |-> 0]
    /\ hist' = Disturbed
    /\ UNCHANGED << pending, deployment, musicFiles, currentIndex, currentPosition, persisted,
                    memoryCache, aliased, channel, nextMsgId, updates, filesSeen,
                    posts, faults, sync >>

\* router.get('/current'): linkOk says whether getFileLink answers.
ApiCurrent(readOk, linkOk, writeOk) ==
    /\ ApiAll
    /\ LET st == Lazy(readOk)
           n == Len(st.musicFiles)
           idx == st.currentIndex
       IN IF n > 0 /\ idx < n
          THEN IF NeedsUrl(st.musicFiles[idx + 1]) /\ linkOk
               THEN /\ musicFiles' = Patched(st.musicFiles, idx)
                    /\ currentIndex' = idx
                    /\ memoryCache' = Record(musicFiles', idx)
                    /\ aliased' = TRUE
                    /\ persisted' = SaveBlob(musicFiles', idx, writeOk)
                    /\ resp' = [op |-> "current", success |-> TRUE, error |-> "",
                                track |-> << musicFiles'[idx + 1] >>,
                                index |-> idx, total |-> n]
               ELSE /\ Settle(st)
                    /\ UNCHANGED persisted
                    /\ resp' = [op |-> "current", success |-> TRUE, error |-> "",
                                track |-> << st.musicFiles[idx + 1] >>,
                                index |-> idx, total |-> n]
          ELSE /\ Settle(st)
               /\ UNCHANGED persisted
               /\ resp' = [op |-> "current", success |-> FALSE,
                           error |-> "No tracks available", track |-> << >>,
                           index |-> idx, total |-> n]
    /\ UNCHANGED currentPosition

NextCurrent ==
    \/ ServerCurrent
    \/ \E readOk, linkOk, writeOk \in BOOLEAN : ApiCurrent(readOk, linkOk, writeOk)
    \/ \E readOk \in BOOLEAN : ServerRestart(readOk)
    \/ ColdStart

SpecCurrent == InitCurrent /\ [][NextCurrent]_vars

(***************************************************************************)
(* Requests that interleave.  Both players run their handlers on one event *)
(* loop and take no lock: a handler that awaits gives way to any other     *)
(* handler, a sync pass or a refresh in flight included.  The handlers     *)
(* that await between reading the playlist and answering are taken in two  *)
(* steps here: the server's select request (it awaits getFileLink for a    *)
(* track without a url) and the serverless next request (it awaits         *)
(* saveMusicData()); the serverless refresh awaits its scan after it has   *)
(* cleared the playlist.                                                   *)
(***************************************************************************)
\* track.url = ... on the track object the handler holds: every list that
\* holds the object shows the url.
PatchAll(files, track) ==
    [i \in 1..Len(files) |->
        IF files[i] = track THEN [track EXCEPT !.url = "link"] ELSE files[i]]

\* app.post('/api/play/:index') up to `await bot.getFileLink(track.fileId)'.
ServerPlayBegin(index) ==
    /\ deployment = "server"
    /\ pending = NoRequest
    /\ IF Len(musicFiles) > 0 /\ IndexValid(index, Len(musicFiles))
       THEN /\ currentIndex' = index
            /\ currentPosition' = 0
            /\ IF NeedsUrl(musicFiles[index + 1])
               THEN /\ pending' = [op |-> "play", track |-> musicFiles[index + 1]]
                    /\ resp' = NoResp
               ELSE /\ pending' = pending
                    /\ resp' = [op |-> "play", success |-> TRUE, error |-> "",
                                index |-> index, track |-> << musicFiles[index + 1] >>]
       ELSE /\ UNCHANGED << currentIndex, currentPosition, pending >>
            /\ resp' = [op |-> "play", success |-> FALSE, error |-> "Invalid track index",
                        index |-> currentIndex, track |-> << >>]
    /\ hist' = Disturbed
    /\ UNCHANGED << deployment, musicFiles, persisted, memoryCache, aliased, channel,
                    nextMsgId, updates, filesSeen, posts, faults, sync >>

\* The rest of the handler once getFileLink has answered (linkOk) or failed:
\* res.json({ success: true, index: currentIndex, track: track, ... }).
ServerPlayEnd(linkOk) ==
    /\ deployment = "server"
    /\ pending.op = "play"
    /\ pending' = NoRequest
    /\ musicFiles' = IF linkOk THEN PatchAll(musicFiles, pending.track) ELSE musicFiles
    /\ sync' = IF linkOk
               THEN [sync EXCEPT !.existingMusic = PatchAll(@, pending.track),
                                 !.validTracks = PatchAll(@, pending.track)]
               ELSE sync
    /\ resp' = [op |-> "play", success |-> TRUE, error |-> "", index |-> currentIndex,
                track |-> << IF linkOk THEN [pending.track EXCEPT !.url = "link"]
                             ELSE pending.track >>]
    /\ hist' = Disturbed
    /\ UNCHANGED << deployment, currentIndex, currentPosition, persisted, memoryCache,
                    aliased, channel, nextMsgId, updates, filesSeen, posts, faults >>

\* What a serverless request leaves alone besides the player's own state.
ApiFrame ==
    /\ deployment = "serverless"
    /\ hist' = Disturbed
    /\ UNCHANGED << deployment, channel, nextMsgId, updates, filesSeen, posts, faults >>

\* router.post('/next') up to `await saveMusicData()': the index has moved
\* and the record to write is made.
ApiNextBegin(readOk, writeOk) ==
    /\ ApiFrame
    /\ pending = NoRequest
    /\ LET st == Lazy(readOk)
           n == Len(st.musicFiles)
       IN IF n > 0
          THEN /\ MoveTo(st, NextIndex(st.currentIndex, n), writeOk)
               /\ pending' = [op |-> "next"]
               /\ resp' = NoResp
          ELSE /\ Settle(st)
               /\ pending' = pending
               /\ resp' = [op |-> "next", success |-> FALSE, error |-> "No tracks available",
                           index |-> st.currentIndex, track |-> << >>]
               /\ UNCHANGED << currentPosition, persisted >>
    /\ UNCHANGED sync

\* The rest of the handler: const track = musicFiles[currentIndex], then
\* `!track.url', which throws when there is no such track; the catch of the
\* handler answers 500.
ApiNextEnd(linkOk, writeOk) ==
    /\ ApiFrame
    /\ pending.op = "next"
    /\ pending' = NoRequest
    /\ IF currentIndex < Len(musicFiles)
       THEN IF NeedsUrl(musicFiles[currentIndex + 1]) /\ linkOk
            THEN /\ musicFiles' = Patched(musicFiles, currentIndex)
                 /\ memoryCache' = Record(musicFiles', currentIndex)
                 /\ aliased' = TRUE
                 /\ persisted' = SaveBlob(musicFiles', currentIndex, writeOk)
                 /\ resp' = [op |-> "next", success |-> TRUE, error |-> "",
                             index |-> currentIndex,
                             track |-> << musicFiles'[currentIndex + 1] >>]
            ELSE /\ resp' = [op |-> "next", success |-> TRUE, error |-> "",
                             index |-> currentIndex,
                             track |-> << musicFiles[currentIndex + 1] >>]
                 /\ UNCHANGED << musicFiles, memoryCache, aliased, persisted >>
       ELSE /\ resp' = [op |-> "next", success |-> FALSE, error |-> "TypeError",
                        index |-> currentIndex, track |-> << >>]
            /\ UNCHANGED << musicFiles, memoryCache, aliased, persisted >>
    /\ UNCHANGED << currentIndex, currentPosition, sync >>

\* router.post('/refresh') up to its first await: musicFiles.length = 0,
\* currentIndex = 0.
ApiRefreshBegin ==
    /\ ApiFrame
    /\ sync.pc = "idle"
    /\ musicFiles' = << >>
    /\ currentIndex' = 0
    /\ memoryCache' = InPlace(memoryCache, aliased, << >>)
    /\ sync' = [IdleSync EXCEPT !.pc = "refresh"]
    /\ resp' = NoResp
    /\ UNCHANGED << currentPosition, persisted, aliased, pending >>

\* The rest of the refresh once the scan is through: the tracks found are
\* spliced into the array and saved, or, when none was found,
\* initializeMusic() loads what the store has.
ApiRefreshEnd(readOk, writeOk) ==
    /\ deployment = "serverless"
    /\ sync.pc = "refresh"
    /\ sync' = IdleSync
    /\ LET head == nextMsgId
           scan == EnhancedScan(head - 1, Max(1, head - ApiMaxScan),
                                [found |-> << >>, copies |-> 0, probed |-> {}])
           scannedTracks == SortByMessageId(scan.found)
           init == InitializeMusic(memoryCache, currentIndex, readOk)
       IN /\ nextMsgId + 1 + scan.copies <= MaxMsgId + 1
          /\ nextMsgId' = nextMsgId + 1 + scan.copies
          /\ IF Len(scannedTracks) > 0
             THEN /\ musicFiles' = scannedTracks
                  /\ memoryCache' = Record(scannedTracks, currentIndex)
                  /\ aliased' = TRUE
                  /\ persisted' = SaveBlob(scannedTracks, currentIndex, writeOk)
                  /\ UNCHANGED currentIndex
             ELSE /\ Settle(init)
                  /\ UNCHANGED persisted
          /\ resp' = [op |-> "refresh", success |-> TRUE, outcome |-> TRUE,
                      tracks |-> Len(musicFiles'), head |-> head, scanned |-> scan.probed]
    /\ hist' = Disturbed
    /\ UNCHANGED << deployment, currentPosition, channel, updates, filesSeen, posts,
                    faults, pending >>

\* The players on a playlist loaded from the store, with playback requests
\* that come in while a sync pass or a refresh is in flight.
NextRace ==
    \/ \E index \in 0..(MaxStored - 1) : ServerPlayBegin(index)
    \/ \E linkOk \in BOOLEAN : ServerPlayEnd(linkOk)
    \/ ServerCurrent
    \/ StartSync
    \/ Validate("notfound")
    \/ \E writeOk \in WriteOutcomes : SendProbe(TRUE, writeOk)
    \/ \E writeOk \in WriteOutcomes : DeleteProbe(TRUE, writeOk)
    \/ \E writeOk \in WriteOutcomes : Forward(TRUE, writeOk)
    \/ \E readOk, writeOk \in BOOLEAN : ApiNextBegin(readOk, writeOk)
    \/ \E linkOk, writeOk \in BOOLEAN : ApiNextEnd(linkOk, writeOk)
    \/ ApiRefreshBegin
    \/ \E readOk, writeOk \in BOOLEAN : ApiRefreshEnd(readOk, writeOk)

SpecRace == InitCurrent /\ [][NextRace]_vars

(***************************************************************************)
(* functions/webhook-init.js: the function that registers the webhook.     *)
(***************************************************************************)
HttpMethods == {"GET", "HEAD", "POST", "PUT", "DELETE", "OPTIONS", "PATCH"}

CorsHeaders ==
    {"Access-Control-Allow-Origin", "Access-Control-Allow-Headers",
     "Access-Control-Allow-Methods"}

JsonHeaders == {"Access-Control-Allow-Origin", "Content-Type"}

\* exports.handler: the tests run in the order of the code. hasToken: whether
\* TELEGRAM_BOT_TOKEN is set; deleteOk: whether deleteWebhook answers;
\* setAnswer: what setWebhook does. calls counts the requests to the provider.
Handler(method, hasToken, deleteOk, setAnswer) ==
    IF method # "POST"
    THEN [statusCode |-> 405, headers |-> CorsHeaders, calls |-> 0]
    ELSE IF method = "OPTIONS"
    THEN [statusCode |-> 200, headers |-> CorsHeaders, calls |-> 0]
    ELSE IF ~hasToken
    THEN [statusCode |-> 500, headers |-> JsonHeaders, calls |-> 0]
    ELSE IF ~deleteOk
    THEN [statusCode |-> 500, headers |-> JsonHeaders, calls |-> 1]
    ELSE [statusCode |-> CASE setAnswer = "ok" -> 200
                           [] setAnswer = "notOk" -> 400
                           [] OTHER -> 500,
          headers |-> JsonHeaders, calls |-> 2]

WebhookInit(method, hasToken, deleteOk, setAnswer) ==
    /\ deployment = "serverless"
    /\ resp' = [op |-> "webhook-init", method |-> method,
                answer |-> Handler(method, hasToken, deleteOk, setAnswer)]
    /\ hist' = Disturbed
    /\ UNCHANGED << deployment, musicFiles, currentIndex, currentPosition, persisted,
                    memoryCache, aliased, channel, nextMsgId, updates, filesSeen,
                    posts, faults, sync, pending >>

\* The two functions of the serverless deployment, with uploads to the
\* channel.
NextWebhook ==
    \/ \E method \in HttpMethods, hasToken, deleteOk \in BOOLEAN,
          setAnswer \in {"ok", "notOk", "throws"} :
          WebhookInit(method, hasToken, deleteOk, setAnswer)
    \/ \E f \in Files, notify \in BOOLEAN : posts < MaxPosts /\ UserPost(f, notify)
    \/ \E outcome \in {"ok", "unreachable", "probeStuck"}, readOk \in BOOLEAN,
          writeOk \in BOOLEAN : ApiRefresh(outcome, readOk, writeOk)
    \/ \E readOk \in BOOLEAN : ApiPlaylist(readOk)
    \/ ColdStart

InitServerless == Init /\ deployment = "serverless"

SpecWebhook == InitServerless /\ [][NextWebhook]_vars

(***************************************************************************)
(* Properties.                                                             *)
(***************************************************************************)
NoDuplicateMessageId(files) ==
    \A i, j \in 1..Len(files) :
        (i # j /\ files[i].messageId # 0) => files[i].messageId # files[j].messageId

NoDuplicateFileId(files) ==
    \A i, j \in 1..Len(files) :
        (i # j /\ files[i].fileId # 0) => files[i].fileId # files[j].fileId

Range(s) == {s[i] : i \in 1..Len(s)}

\* C1: the playlist a sync pass (validateAndSyncByMessageIds with
\* scanForNewMessages) has just produced holds no two tracks with the same
\* non-empty messageId, whatever reachable playlist the pass started from.
C1_SyncedMessageIdsUnique ==
    hist.done => NoDuplicateMessageId(musicFiles)

\* A pass has just retained a track with a messageId and found a new one.
C1_Witness ==
    /\ hist.done
    /\ Len(hist.pass.newTracks) > 0
    /\ \E i \in 1..Len(hist.pass.validTracks) : hist.pass.validTracks[i].messageId # 0

\* C2: in every reachable state no two tracks of the playlist share a
\* non-empty fileId.
C2_FileIdsUnique ==
    NoDuplicateFileId(musicFiles)

\* What a second pass must report and leave behind to have changed nothing.
SecondPassIdle ==
    /\ resp.tracksAdded = 0
    /\ resp.tracksRemoved = 0
    /\ musicFiles = hist.pass.existingMusic

C4_IndexInBounds ==
    resp.op \in {"next", "previous", "play"} =>
        IF Len(musicFiles) = 0 THEN currentIndex = 0
        ELSE 0 <= currentIndex /\ currentIndex < Len(musicFiles)

\* C5: on a non-empty playlist of length n, next sets currentIndex to
\* (currentIndex + 1) mod n and previous sets it to (currentIndex - 1) mod n;
\* for the serverless player, the playlist and index are those the request
\* works on after its lazy load.
C5_WrapAround ==
    [][/\ (ServerNext /\ Len(musicFiles) > 0) =>
              currentIndex' = (currentIndex + 1) % Len(musicFiles)
       /\ (ServerPrevious /\ Len(musicFiles) > 0) =>
              currentIndex' = (currentIndex - 1) % Len(musicFiles)
       /\ \A readOk, writeOk \in BOOLEAN :
            LET st == Lazy(readOk) IN
            /\ (ApiNext(readOk, writeOk) /\ Len(st.musicFiles) > 0) =>
                   currentIndex' = (st.currentIndex + 1) % Len(st.musicFiles)
            /\ (ApiPrev(readOk, writeOk) /\ Len(st.musicFiles) > 0) =>
                   currentIndex' = (st.currentIndex - 1) % Len(st.musicFiles)
      ]_vars

\* The tracks of the playlist a pass started from whose probe said the
\* message is not there.
NotFound(pass) ==
    {i \in 1..Len(pass.existingMusic) :
        pass.existingMusic[i].messageId # 0 /\ pass.probes[i] = "notfound"}

\* C6: a sync pass removes a track that has a messageId if and only if its
\* liveness probe failed with not-found / invalid-id; the outcome's
\* tracksRemoved is the number of these tracks and removedTracks lists
\* exactly their titles.
C6_RemovedIffNotFound ==
    hist.done =>
        LET pre == hist.pass.existingMusic IN
        /\ \A i \in 1..Len(pre) :
              pre[i].messageId # 0 =>
                  ((pre[i] \notin Range(musicFiles)) <=> (i \in NotFound(hist.pass)))
        /\ resp.tracksRemoved = Cardinality(NotFound(hist.pass))
        /\ resp.removedTracks = Titles(SelectSeqIdx(pre, NotFound(hist.pass), 1))

\* A pass has just probed one track whose post is gone and one whose probe
\* failed for another reason.
C6_Witness ==
    /\ hist.done
    /\ "notfound" \in Range(hist.pass.probes)
    /\ "other" \in Range(hist.pass.probes)

\* C7: the tracks one sync pass has newly discovered stand in the playlist
\* in ascending messageId order.
C7_NewTracksAscending ==
    hist.done =>
        \A i, j \in 1..Len(hist.pass.newTracks) :
            i < j => hist.pass.newTracks[i].messageId < hist.pass.newTracks[j].messageId

\* C8: a seek request is rejected and leaves currentPosition alone when the
\* position is negative or not a number; otherwise it sets currentPosition
\* to the position; either way currentIndex and the track list stay.
C8_Seek ==
    [][resp'.op = "seek" => \A p \in SeekInputs :
          (ServerSeek(p) \/ ApiSeek(p)) =>
              /\ IF ~p.isNumber \/ p.value < 0
                 THEN ~resp'.success /\ currentPosition' = currentPosition
                 ELSE resp'.success /\ currentPosition' = p.value
              /\ currentIndex' = currentIndex
              /\ musicFiles' = musicFiles
      ]_vars

\* A seek has just been rejected while the position stood at a value an
\* earlier seek had set.
C8_Witness ==
    /\ resp.op = "seek"
    /\ ~resp.success
    /\ currentPosition = MaxPos

\* A select-index request that failed, told the highest index of a playlist
\* of files, and left the index idx, the position and the playlist files.
SelectRejected(files, idx) ==
    /\ ~resp'.success
    /\ resp'.maxIndex = Len(files) - 1
    /\ musicFiles' = files
    /\ currentIndex' = idx
    /\ currentPosition' = currentPosition

\* C9 as stated: a select-index request whose index is outside [0, length)
\* fails with maxIndex = length - 1 and leaves currentIndex, currentPosition
\* and the track list as they were before the request.
C9_SelectOutOfRange_AsStated ==
    [][\A index \in IndexInputs :
          (/\ \/ ServerPlay(index)
              \/ \E readOk, writeOk \in BOOLEAN : ApiTrack(index, readOk, writeOk)
           /\ ~(0 <= index /\ index < Len(musicFiles)))
          => SelectRejected(musicFiles, currentIndex)
      ]_vars

\* C9, amended: the serverless handler first loads the stored playlist and
\* index when its in-memory playlist is empty; the index is judged against
\* the playlist the request then works on, maxIndex is that playlist's
\* length - 1, and the playlist, the index and the position stay as the
\* load left them.  For the server nothing is loaded and the statement holds
\* as it stands.
C9_SelectOutOfRange ==
    [][resp'.op = "play" => \A index \in IndexInputs :
          /\ (~(0 <= index /\ index < Len(musicFiles)) /\ ServerPlay(index))
                => SelectRejected(musicFiles, currentIndex)
          /\ \A readOk, writeOk \in BOOLEAN :
                LET st == Lazy(readOk) IN
                (/\ ~(0 <= index /\ index < Len(st.musicFiles))
                 /\ ApiTrack(index, readOk, writeOk))
                => (SelectRejected(st.musicFiles, st.currentIndex) /\ persisted' = persisted)
      ]_vars

\* A select-index request has just failed on a playlist of several tracks
\* with the index away from 0.
C9_Witness ==
    /\ resp.op = "play"
    /\ ~resp.success
    /\ Len(musicFiles) > 1
    /\ resp.maxIndex = Len(musicFiles) - 1
    /\ currentIndex > 0

\* C10: when a sync pass fails with an unexpected exception, or a refresh
\* cannot reach or scan the channel, the in-memory playlist and the stored
\* playlist are what they were before and the caller is told of the failure.
C10_FailedRefreshKeepsPlaylist ==
    [][/\ \A outcome \in {"unreachable", "probeStuck"}, readOk, writeOk \in BOOLEAN :
            (ApiRefresh(outcome, readOk, writeOk) /\ Len(musicFiles) > 0) =>
                /\ musicFiles' = musicFiles
                /\ persisted' = persisted
                /\ ~resp'.success
       /\ Validate("malformed") =>
                /\ musicFiles' = musicFiles
                /\ persisted' = persisted
                /\ ~resp'.success
      ]_vars

\* The tracks of the playlist a pass started from whose probe failed with an
\* error other than not-found.
Unverifiable(pass) ==
    {i \in 1..Len(pass.existingMusic) :
        pass.existingMusic[i].messageId # 0 /\ pass.probes[i] = "other"}

\* C11: in a sync pass a track whose liveness probe fails with an error
\* other than not-found / invalid-id stays in the playlist at its position
\* (its place in the order, moved up by the tracks removed before it), and
\* the outcome's validationErrors is the number of such tracks.
C11_UnverifiableKept ==
    hist.done =>
        LET pre == hist.pass.existingMusic IN
        /\ \A i \in Unverifiable(hist.pass) :
              LET k == i - Cardinality({j \in NotFound(hist.pass) : j < i}) IN
              k <= Len(musicFiles) /\ musicFiles[k] = pre[i]
        /\ resp.validationErrors = Cardinality(Unverifiable(hist.pass))

\* A pass has just kept a track whose probe failed for another reason,
\* behind a track it removed.
C11_Witness ==
    /\ hist.done
    /\ \E i \in NotFound(hist.pass), j \in Unverifiable(hist.pass) : i < j

\* The tracks of the playlist a pass started from that have no messageId.
Legacy(pass) ==
    {i \in 1..Len(pass.existingMusic) : pass.existingMusic[i].messageId = 0}

\* C12: a sync pass never removes a track whose messageId is empty: every
\* such track of the playlist before the pass is in the playlist after it,
\* and no liveness probe is issued for it.
C12_LegacyKept ==
    /\ sync.pc = "validate" => sync.existingMusic[sync.i].messageId # 0
    /\ hist.done =>
          \A i \in Legacy(hist.pass) :
              /\ hist.pass.probes[i] = "none"
              /\ hist.pass.existingMusic[i] \in Range(musicFiles)

\* A pass has just gone over a playlist with tracks without a messageId and
\* removed another track.
C12_Witness ==
    /\ hist.done
    /\ Legacy(hist.pass) # {}
    /\ NotFound(hist.pass) # {}

\* The tracks a pass retained, in the order they had before it.
Retained(pass) ==
    SelectSeqIdx(pass.existingMusic,
                 (1..Len(pass.existingMusic)) \ NotFound(pass), 1)

\* C13: after a sync pass the playlist is the retained tracks in the order
\* they had before the pass, followed by the newly discovered tracks; no new
\* track precedes a retained one.
C13_RetainedThenNew ==
    hist.done =>
        LET kept == Retained(hist.pass)
            n == Len(kept)
        IN /\ Len(musicFiles) = n + resp.tracksAdded
           /\ SubSeq(musicFiles, 1, n) = kept
           /\ \A k \in (n + 1)..Len(musicFiles) :
                 /\ musicFiles[k].messageId # 0
                 /\ musicFiles[k].messageId \notin MessageIdsOf(kept)

\* A pass has just removed a track, retained others and found a new one.
C13_Witness ==
    /\ hist.done
    /\ resp.tracksRemoved > 0
    /\ resp.tracksAdded > 0
    /\ Len(musicFiles) > resp.tracksAdded

Window(h, w) == Max(1, h - w)..(h - 1)

\* C16: in the discovery phase with head id h and scan window W, every
\* message id in [max(1, h - W), h - 1] that is not the messageId of a
\* retained track is probed, and no id outside that range is probed.  The
\* discovery phase is that of a pass whose scan probe was sent and deleted;
\* the serverless refresh retains no track.
C16_ScanWindow ==
    /\ (hist.done /\ hist.pass.head > 0 /\ channel[hist.pass.head].kind = "none") =>
          hist.pass.scanned =
              Window(hist.pass.head, MaxScanCount) \ MessageIdsOf(Retained(hist.pass))
    /\ (deployment = "serverless" /\ resp.op = "refresh" /\ resp.outcome) =>
          resp.scanned = Window(resp.head, ApiMaxScan)

\* C17: when a next, previous or select-index request has returned with
\* success, the stored record's currentIndex is the currentIndex in memory.
C17_WriteThrough ==
    (resp.op \in {"next", "previous", "play"} /\ resp.success /\ persisted.present) =>
        persisted.currentIndex = currentIndex

\* The track the player stands on.
CurrentTrack(files, idx) ==
    IF 0 <= idx /\ idx < Len(files) THEN << files[idx + 1] >> ELSE << >>

\* C18: whenever the track at currentIndex changes (next, previous,
\* select-index, a sync pass or refresh that removes or shifts tracks, the
\* upload handler replacing the demo playlist), currentPosition is 0
\* afterwards.
C18_PositionReset ==
    [][CurrentTrack(musicFiles', currentIndex') # CurrentTrack(musicFiles, currentIndex)
          => currentPosition' = 0]_vars

C20_PermissionDenied ==
    [][\A writeOk \in WriteOutcomes :
          SendProbe(FALSE, writeOk) => (~resp'.success /\ musicFiles' = musicFiles)
      ]_vars

\* A next or previous request that answered "no tracks" and moved nothing.
NoTracks ==
    /\ ~resp'.success
    /\ currentIndex' = currentIndex
    /\ currentPosition' = currentPosition

\* C21: on an empty playlist (for the serverless player: still empty after
\* its lazy load) next and previous change neither currentIndex nor
\* currentPosition and answer with a failure ("no tracks"), not a success.
C21_EmptyPlaylistNoTracks ==
    [][resp'.op \in {"next", "previous"} =>
          /\ ((ServerNext \/ ServerPrevious) /\ Len(musicFiles) = 0) => NoTracks
          /\ \A readOk, writeOk \in BOOLEAN :
                (/\ ApiNext(readOk, writeOk) \/ ApiPrev(readOk, writeOk)
                 /\ Len(Lazy(readOk).musicFiles) = 0) => NoTracks
      ]_vars

\* The playlist and index in memory are those of the stored record; a
\* stored record with an empty track list loads as no playlist.
AsStored(files, idx) ==
    /\ Len(persisted.musicFiles) > 0 => files = persisted.musicFiles
    /\ idx = persisted.currentIndex

\* C22: a record saved to the store is what a restarted process loads: when
\* the process has restarted (module state and memory cache lost) and reads
\* the store, the load yields the track list of the record last written, in
\* the same order, and its currentIndex.  The server loads at start-up, the
\* serverless player in the first request of the new instance.
C22_SaveRestartLoad ==
    [][/\ (persisted.present /\ ServerRestart(TRUE)) =>
              AsStored(musicFiles', currentIndex')
       /\ (persisted.present /\ ~memoryCache.present /\ Len(musicFiles) = 0
             /\ ApiPlaylist(TRUE)) =>
              AsStored(musicFiles', currentIndex')
      ]_vars

\* Nothing to load: the record is absent, unreadable, or has no track.
NothingStored(rec, readOk) ==
    ~readOk \/ ~rec.present \/ Len(rec.musicFiles) = 0

\* C23: load never fails its caller: when the stored record is absent,
\* empty or unreadable, the load reports that nothing was loaded and leaves
\* the playlist and currentIndex in memory as they were, and the request
\* that asked for the load is answered, with the index unchanged.
C23_LoadNeverFails ==
    [][\A readOk \in BOOLEAN :
          /\ (NothingStored(persisted, readOk) /\ ServerMusic(readOk)) =>
                LET load == LoadPersistedMusic(musicFiles, currentIndex, readOk) IN
                /\ ~load.loaded
                /\ load.musicFiles = musicFiles
                /\ load.currentIndex = currentIndex
                /\ currentIndex' = currentIndex
                /\ resp'.success
          /\ (/\ Len(musicFiles) = 0
              /\ NothingStored(LoadData(memoryCache, readOk), TRUE)
              /\ ApiPlaylist(readOk)) =>
                LET load == LoadMusicData(memoryCache, musicFiles, currentIndex, readOk) IN
                /\ ~load.loaded
                /\ load.musicFiles = musicFiles
                /\ load.currentIndex = currentIndex
                /\ musicFiles' = musicFiles
                /\ currentIndex' = currentIndex
                /\ resp'.success
      ]_vars

\* The serverless player has just answered a playlist request with an empty
\* list although the store holds a record: the read failed.
C23_Witness ==
    /\ deployment = "serverless"
    /\ resp.op = "playlist"
    /\ Len(musicFiles) = 0
    /\ ~memoryCache.present
    /\ persisted.present

\* C24: a store write that fails during a mutating operation changes
\* neither the track list nor currentIndex in memory, and the operation does
\* not fail: the upload handler still leaves the playlist with the new track,
\* a sync pass still installs the retained and the new tracks, brings the
\* index into range and reports success, and a next, previous or
\* select-index request of the serverless player still moves the index and
\* answers with success.
C24_WriteFailureHarmless ==
    [][/\ \A u \in updates, link \in {"ok", "tooBig"} :
            (ChannelPost(u, link, FALSE)
               /\ ~ExistingTrack(musicFiles, Track(u.file, u.messageId))) =>
                /\ musicFiles' = Append(WithoutDemo(musicFiles), Track(u.file, u.messageId))
                /\ currentIndex' = IF WithoutDemo(musicFiles) # musicFiles THEN 0
                                   ELSE currentIndex
       /\ (resp'.op = "refresh"
             /\ (DeleteProbe(TRUE, FALSE) \/ Forward(TRUE, FALSE) \/ Cleanup(TRUE, FALSE))) =>
                /\ resp'.success
                /\ musicFiles' = hist'.pass.validTracks \o hist'.pass.newTracks
                /\ currentIndex' = IF currentIndex >= Len(musicFiles') THEN 0
                                   ELSE currentIndex
       /\ \A readOk \in BOOLEAN :
            LET st == Lazy(readOk)
                n == Len(st.musicFiles)
            IN /\ (n > 0 /\ ApiNext(readOk, FALSE)) =>
                      /\ resp'.success
                      /\ musicFiles' = st.musicFiles
                      /\ currentIndex' = (st.currentIndex + 1) % n
               /\ (n > 0 /\ ApiPrev(readOk, FALSE)) =>
                      /\ resp'.success
                      /\ musicFiles' = st.musicFiles
                      /\ currentIndex' = (st.currentIndex + n - 1) % n
               /\ \A index \in 0..(n - 1) :
                      ApiTrack(index, readOk, FALSE) =>
                          /\ resp'.success
                          /\ musicFiles' = st.musicFiles
                          /\ currentIndex' = index
      ]_vars

\* A sync pass has just returned with success and a playlist of tracks, and
\* the store holds no record: the write of the pass failed, as did the
\* write of the upload handler before it.
C24_Witness ==
    /\ hist.done
    /\ resp.success
    /\ Len(musicFiles) > 0
    /\ musicFiles # DemoPlaylist
    /\ ~persisted.present

\* The current-track request answered with the track's url resolved, the
\* playlist entry at idx patched with it and the playlist saved.
Resolved(idx) ==
    /\ resp'.track # << >>
    /\ resp'.track[1].url = "link"
    /\ musicFiles'[idx + 1].url = "link"
    /\ persisted' = Record(musicFiles', idx)

\* C25: when the current-track request finds the track at currentIndex with
\* an empty url and a fileId, and the url resolves (and the store takes the
\* write), the track it returns carries the resolved url, the playlist
\* entry is patched with it, and the stored record is the patched playlist
\* when the request answers.
C25_CurrentResolvesUrl ==
    [][/\ (/\ Len(musicFiles) > 0
           /\ currentIndex < Len(musicFiles)
           /\ NeedsUrl(musicFiles[currentIndex + 1])
           /\ ServerCurrent) => Resolved(currentIndex)
       /\ \A readOk \in BOOLEAN :
             LET st == Lazy(readOk) IN
             (/\ Len(st.musicFiles) > 0
              /\ st.currentIndex < Len(st.musicFiles)
              /\ NeedsUrl(st.musicFiles[st.currentIndex + 1])
              /\ ApiCurrent(readOk, TRUE, TRUE)) => Resolved(st.currentIndex)
      ]_vars

\* C26: a playback request that shares the event loop with a sync pass or a
\* refresh in flight completes without an internal error, and when it
\* returns a track, the index it returns is a valid index of the playlist
\* and the track there is the track it returns.
C26_RacingPlayback ==
    resp.op \in {"next", "play", "current"} =>
        /\ resp.error # "TypeError"
        /\ resp.track # << >> =>
              /\ 0 <= resp.index
              /\ resp.index < Len(musicFiles)
              /\ musicFiles[resp.index + 1] = resp.track[1]

\* C27: a sync pass, once started, returns a Sync Outcome (completion or
\* failure) after finitely many steps, provided every provider call it
\* awaits returns or raises in the end, for any playlist and any channel
\* contents.
C27_PassTerminates ==
    (sync.pc # "idle") ~> (sync.pc = "idle" /\ resp.op = "refresh")

\* A pass has just returned after probing the tracks of its playlist and
\* forwarding two ids of its scan window.
C27_Witness ==
    /\ hist.done
    /\ Cardinality(hist.pass.scanned) >= 2
    /\ \E i \in 1..Len(hist.pass.probes) : hist.pass.probes[i] # "none"


\* The liveness probes a pass has issued: one per validated track, none for a
\* track without a messageId.
ProbesIssued(probes) == Cardinality({i \in 1..Len(probes) : probes[i] # "none"})

\* The forward probes of enhancedChannelScan for a head and a window size.
ApiProbes(head, window) ==
    EnhancedScan(head - 1, Max(1, head - window),
                 [found |-> << >>, copies |-> 0, probed |-> {}]).probed

\* C28: in one sync pass the forward probes of discovery never exceed the scan
\* window (maxScanCount on the server, maxScan in the serverless scan, whose
\* loop is also evaluated for the window sizes the modelled channel can
\* overrun), and the liveness probes of validation never exceed the number of
\* tracks of the starting playlist.
C28_ProbesBounded ==
    /\ Cardinality(hist.pass.scanned) <= MaxScanCount
    /\ sync.pc # "idle" => ProbesIssued(sync.probes) <= Len(sync.existingMusic)
    /\ hist.done => ProbesIssued(hist.pass.probes) <= Len(hist.pass.existingMusic)
    /\ (deployment = "serverless" /\ resp.op = "refresh") =>
          Cardinality(resp.scanned) <= ApiMaxScan
    /\ deployment = "serverless" =>
          \A window \in 1..MaxScanCount :
              Cardinality(ApiProbes(nextMsgId, window)) <= window

\* A pass that has used its whole scan window and has probed every track of
\* its starting playlist.
C28_Witness ==
    /\ hist.done
    /\ Cardinality(hist.pass.scanned) = MaxScanCount
    /\ Len(hist.pass.existingMusic) > 0
    /\ ProbesIssued(hist.pass.probes) = Len(hist.pass.existingMusic)


\* The scan of enhancedChannelScan from a head, with the loop's break at
\* maxFound tracks.
ApiScan(head, maxFound) ==
    ScanUntil(head - 1, Max(1, head - ApiMaxScan), maxFound, NoFails,
              [found |-> << >>, copies |-> 0, probed |-> {}])

\* C29: no pass adds more tracks than the fixed maximum. The server's scan
\* probes at most maxScanCount ids, which is the same number; the serverless
\* scan breaks off when it has found the maximum, checked for its constant
\* and, in every state, for the maxima the modelled channel can exceed: the
\* tracks found never exceed the maximum, and once they reach it no id behind
\* the last track found is probed.
C29_NewTracksCapped ==
    /\ hist.done =>
          /\ Len(hist.pass.newTracks) <= MaxScanCount
          /\ Len(musicFiles) <= Len(hist.pass.existingMusic) + MaxScanCount
    /\ (deployment = "serverless" /\ resp.op = "refresh") => resp.tracks <= ApiMaxFound
    /\ deployment = "serverless" =>
          \A maxFound \in 1..MaxPosts :
              LET scan == ApiScan(nextMsgId, maxFound) IN
              /\ Len(scan.found) <= maxFound
              /\ Len(scan.found) = maxFound =>
                    \A m \in scan.probed : m >= scan.found[maxFound].messageId

\* A serverless channel with more audio posts in the scan window than the
\* smallest maximum, found by a refresh that has just run.
C29_Witness ==
    /\ deployment = "serverless"
    /\ resp.op = "refresh"
    /\ Len(ApiScan(nextMsgId, 1).found) = 1
    /\ \E m \in 2..(nextMsgId - 1) :
          IsAudioFile(channel[m]) /\ m \notin ApiScan(nextMsgId, 1).probed


\* C30: when a sync pass has returned with success, with or without changes
\* to the playlist, the store holds a record whose track list is the
\* playlist in memory.
C30_PassPersists ==
    (resp.op = "refresh" /\ resp.outcome) =>
        persisted.present /\ persisted.musicFiles = musicFiles


\* The scan of a refresh from its head when no provider call fails.
CleanScan(head) == ApiScan(head, ApiMaxFound)

\* The ids of the audio posts a finished pass has probed without adding them.
Missed(pass) ==
    {m \in pass.scanned : IsAudioFile(channel[m])} \ MessageIdsOf(pass.newTracks)

\* C31: a probe of the discovery phase that fails, or a file link that cannot
\* be resolved, does not stop the scan. On the server a finished pass has
\* probed every id of its window that has no retained track, and has missed
\* no more audio posts than provider calls have failed; the serverless scan
\* probes every id it probes when nothing fails, and the refresh adds every
\* track of that scan but those of the failing messages.
C31_FailedProbeSkipped ==
    /\ (deployment = "server" /\ hist.done /\ hist.pass.head > 0
            /\ channel[hist.pass.head].kind = "none") =>
          /\ hist.pass.scanned =
                Window(hist.pass.head, MaxScanCount) \ MessageIdsOf(Retained(hist.pass))
          /\ Cardinality(Missed(hist.pass)) <= faults
    /\ (deployment = "serverless" /\ resp.op = "refresh" /\ resp.outcome) =>
          /\ CleanScan(resp.head).probed \subseteq resp.scanned
          /\ MessageIdsOf(CleanScan(resp.head).found)
                \ (resp.fails.forward \cup resp.fails.link)
                   \subseteq MessageIdsOf(musicFiles)

\* A serverless refresh in which a provider call failed for one message and
\* that has added an audio post at a lower id.
C31_Witness ==
    /\ deployment = "serverless"
    /\ resp.op = "refresh"
    /\ resp.outcome
    /\ \E m \in resp.fails.forward \cup resp.fails.link :
          \E t \in MessageIdsOf(musicFiles) : t < m /\ t \in resp.scanned


\* The audio test as the specification words it: the message carries an
\* audio, voice or document payload that has an audio MIME type, or a file
\* name that ends in a listed extension, or that is the native audio field.
ListedExtensions == {"mp3", "wav", "ogg", "m4a", "flac", "aac", "mp4"}

Qualifies(msg) ==
    \E field \in {"audio", "voice", "document"} :
        /\ msg.field = field
        /\ \/ Len(msg.file.mime_type) > 0 /\ msg.file.mime_type[1] = "audio"
           \/ \E ext \in ListedExtensions :
                 \E stem \in {<< >>, <<"song">>, <<"song", ".", "mp3">>} :
                    \E last \in {ext, IF ext = "mp3" THEN "MP3" ELSE ext} :
                       msg.file.file_name = stem \o <<".", last>>
           \/ field = "audio"

C33_PersistedIndexValid ==
    persisted.present =>
        IF Len(persisted.musicFiles) = 0 THEN persisted.currentIndex = 0
        ELSE persisted.currentIndex \in 0..(Len(persisted.musicFiles) - 1)


\* The tracks of a sequence.
TracksOf(files) == {files[i] : i \in 1..Len(files)}

\* C34: when a sync pass completes, every track the channel_post handler has
\* added since the pass took its snapshot is in the playlist the pass leaves.
C34_UploadSurvivesPass ==
    [][(sync.pc # "idle" /\ sync'.pc = "idle") =>
          (TracksOf(musicFiles) \ TracksOf(sync.existingMusic))
              \subseteq TracksOf(musicFiles')]_vars


\* The message ids of the probe messages and forwarded copies now in the
\* channel.
PassMade == {m \in MsgIds : channel[m].kind = "text" \/ channel[m].copy}

\* C35: no track that a pass has found or added has the message id of a
\* probe message or of a forwarded copy.
C35_TracksOfOriginalPosts ==
    /\ MessageIdsOf(sync.newTracks) \cap PassMade = {}
    /\ MessageIdsOf(musicFiles) \cap PassMade = {}


\* C36: the playlist is the demo playlist, or it holds no demo track.
C36_DemoOrReal ==
    \/ musicFiles = DemoPlaylist
    \/ \A i \in 1..Len(musicFiles) : ~IsDemoTitle(musicFiles[i].title)


\* C37: a channel post from another chat, without an audio payload, or with
\* the fileId or the title of a track of the playlist leaves the track list,
\* currentIndex and the stored record as they are.
C37_IgnoredPostChangesNothing ==
    [][resp'.op = "channel_post" =>
          /\ musicFiles' = musicFiles
          /\ currentIndex' = currentIndex
          /\ persisted' = persisted]_vars

\* The handler has just seen an audio post of the channel that has the title
\* of a track of the playlist and a fileId that no track has.
C37_Witness ==
    /\ resp.op = "channel_post"
    /\ resp.post.chat = "channel"
    /\ resp.post.isAudioFile
    /\ Len(musicFiles) > 1
    /\ \E k \in 1..Len(musicFiles) : musicFiles[k].title = resp.post.track.title
    /\ \A k \in 1..Len(musicFiles) : musicFiles[k].fileId # resp.post.track.fileId


\* C38: the outcome of a pass that ends with success reports as totalTracks
\* the length of the playlist the pass leaves, which is the length of the
\* playlist the pass started from less tracksRemoved plus tracksAdded, and
\* lists tracksRemoved removed titles.
C38_OutcomeConsistent ==
    [][(deployment = "server" /\ sync.pc # "idle" /\ sync'.pc = "idle"
            /\ resp'.op = "refresh" /\ resp'.outcome) =>
          /\ resp'.totalTracks = Len(musicFiles')
          /\ resp'.totalTracks =
                Len(sync.existingMusic) - resp'.tracksRemoved + resp'.tracksAdded
          /\ Len(resp'.removedTracks) = resp'.tracksRemoved]_vars

\* A pass has just returned an outcome with a track removed and a track added.
C38_Witness ==
    /\ deployment = "server"
    /\ sync.pc = "idle"
    /\ resp.op = "refresh"
    /\ resp.outcome
    /\ resp.tracksRemoved > 0
    /\ resp.tracksAdded > 0


\* What a load returns in this process: the track list and the index.
Loads(cache, readOk) ==
    LET data == LoadData(cache, readOk) IN
    IF data.present THEN << data.musicFiles, data.currentIndex >> ELSE << >>

\* C39: in one serverless process a load after a save of a non-empty playlist
\* returns the track list and the index that were saved, whether or not the
\* blob write succeeded, and a step that changes the playlist in memory
\* without saving does not change what a load returns.
C39_LoadReturnsLastSave ==
    [][/\ (deployment = "serverless" /\ pending = NoRequest /\ pending'.op = "next") =>
             \A readOk \in BOOLEAN :
                Loads(memoryCache', readOk) = << musicFiles', currentIndex' >>
       /\ (deployment = "serverless" /\ sync.pc = "idle" /\ sync'.pc = "refresh"
              /\ memoryCache.present /\ Len(memoryCache.musicFiles) > 0) =>
             \A readOk \in BOOLEAN :
                Loads(memoryCache', readOk) = Loads(memoryCache, readOk)
      ]_vars


\* C40: the webhook-init function answers OPTIONS with status 200 and the
\* CORS headers, answers every other method but POST with 405, and sends
\* requests to the provider only for POST.
C40_WebhookInitMethods ==
    resp.op = "webhook-init" =>
        /\ resp.method = "OPTIONS" =>
              resp.answer.statusCode = 200 /\ CorsHeaders \subseteq resp.answer.headers
        /\ resp.method \notin {"POST", "OPTIONS"} => resp.answer.statusCode = 405
        /\ resp.answer.calls > 0 => resp.method = "POST"

====
